---------------------------- MODULE Spec2Model ----------------------------
(***************************************************************************)
(* A model of patina's editing core: the undo/redo History                 *)
(* (patina-core/src/history.rs), the rope-backed Buffer                    *)
(* (patina-core/src/buffer.rs), Selection, Frontmatter and Document of the *)
(* same crate, the TUI state (patina-render/src/tui/app.rs), and the       *)
(* controller with its event loop (patina/src/app.rs).                     *)
(*                                                                         *)
(* Text is a sequence of characters, each character a one-element token.   *)
(* Offsets are 0-based as in the source; sequences are 1-based, so the     *)
(* character at offset i is text[i + 1].                                   *)
(*                                                                         *)
(* Nine specifications share the variables:                                *)
(*   SpecHistory      drives a History object on its own (record, undo,     *)
(*                    redo, clear), as history.rs's unit tests do;          *)
(*   SpecBuffer       draws a buffer content and applies the methods of     *)
(*                    Buffer to it;                                         *)
(*   SpecApp          drives the controller's key handlers on the active    *)
(*                    document of two open ones;                            *)
(*   SpecDocHtml      drives a Document's rendering cache;                  *)
(*   SpecDocFile      drives a Document's load, save and title;             *)
(*   SpecFrontmatter  applies Frontmatter::extract to contents;             *)
(*   SpecSelection    moves a Selection;                                    *)
(*   SpecTui          drives the tabs and the prompt of the TUI state;      *)
(*   SpecSession      runs the controller's event loop: command keys,       *)
(*                    prompts, tabs, resizes and auto-save.                 *)
(* Each specification leaves the variables of the others at their initial  *)
(* values.                                                                 *)
(***************************************************************************)
EXTENDS Integers, Sequences, FiniteSets, TLC

VARIABLES
    history,        \* SpecHistory: the History object {undo_stack, redo_stack, max_size}
    hist_op,        \* SpecHistory: the last method called on it
    hist_arg,       \* SpecHistory: the edit handed to that call (<<e>> for record(e), else <<>>)
    hist_ret,       \* SpecHistory: what that call returned (<<>> is None, <<e>> is Some(e))
    hist_before,    \* SpecHistory: the History object as it was before that call
    hist_prev,      \* SpecHistory: the call before that one: {op, ret, before}
    sym,            \* SpecHistory: tracks a run "N records, N undos, N redos" from fresh
    undone,         \* SpecHistory: successful undos minus successful redos since the last record/clear
    buffer,         \* SpecBuffer: the Buffer object {text, modified}
    query,          \* SpecBuffer: the last offset conversion asked of it, with its result
    buf_call,       \* SpecBuffer: the last method called on it: {op, start, end, text, before, panic, ret}
    tui,            \* SpecApp: the TUI state (tui/app.rs App): documents, active_doc, status_message
    app,            \* SpecApp: the controller's own fields (app.rs App): quit_pending, terminal_height
    panicked,       \* SpecApp: the process has aborted in a panic
    run,            \* SpecApp: tracks a run "k recorded edits, then undos"
    typed,          \* SpecApp: tracks a run of Char keys begun with the cursor at the end of a line
    followed,       \* SpecApp: tracks an undo and the redo after it, and a Backspace at column 0
    failed,         \* SpecSession: <<>>, or <<e>> once run() has returned the error e
    event,          \* SpecSession: what the last turn of the event loop did
    tui_call,       \* SpecTui: the last method called on the TUI state: {op, before, ret}
    document,       \* SpecDocHtml, SpecDocFile: the Document object
    fs,             \* SpecDocFile: the files, path -> <<>> (no file) or <<content>>
    doc_call,       \* SpecDocHtml, SpecDocFile: the last call on the document, with its result
    html_seen,      \* SpecDocHtml: what html() last returned and what was done since
    fm_call,        \* SpecFrontmatter: the last call of Frontmatter::extract, with its result
    selection,      \* SpecSelection: the Selection object {anchor, head}
    sel_call        \* SpecSelection: the last call on it: {op, delta, extend, before}

vars == <<history, hist_op, hist_arg, hist_ret, hist_before, hist_prev, sym, undone,
          buffer, query, buf_call, tui, app, panicked, run, typed, followed,
          failed, event, tui_call,
          document, fs, doc_call, html_seen, fm_call, selection, sel_call>>

histVars == <<history, hist_op, hist_arg, hist_ret, hist_before, hist_prev, sym, undone>>
bufVars  == <<buffer, query, buf_call>>
appVars  == <<tui, app, panicked, run, typed, followed, failed, event, tui_call>>
docVars  == <<document, fs, doc_call, html_seen>>
fmVars   == <<fm_call>>
selVars  == <<selection, sel_call>>

-----------------------------------------------------------------------------
(* Bounds of the model *)

\* with_max_size(m) is tried for every m in 0..MaxMaxSize
MaxMaxSize == 3
\* the Edit values handed to record() in SpecHistory differ in their position: 0..NumEdits-1
NumEdits == 2
\* the longest run of records the symmetry tracker follows
MaxTracked == 4

\* the longest buffer text in SpecBuffer
MaxLen == 3
\* the longest buffer text in SpecApp
MaxDocLen == 2

\* the deepest undo stack the controller model lets grow
MaxHist == 2
\* the longest run of recorded edits the undo tracker follows
MaxRun == 2
\* the longest body of a document of SpecDocHtml and SpecDocFile
MaxBodyLen == 2

\* the width of usize and isize in SpecSelection, in bits
UsizeBits == 2
UsizeMax == 2 ^ UsizeBits - 1
IsizeMin == 0 - 2 ^ (UsizeBits - 1)
IsizeMax == 2 ^ (UsizeBits - 1) - 1

\* History::new()'s capacity
DefaultMaxSize == 1000

Min(a, b) == IF a <= b THEN a ELSE b
\* usize::saturating_sub
saturating_sub(a, b) == IF a >= b THEN a - b ELSE 0
\* usize::saturating_add
saturating_add(a, b) == IF a + b <= UsizeMax THEN a + b ELSE UsizeMax
\* isize::unsigned_abs
unsigned_abs(d) == IF d < 0 THEN 0 - d ELSE d

Front(s) == SubSeq(s, 1, Len(s) - 1)
Last(s) == s[Len(s)]

-----------------------------------------------------------------------------
(* selection.rs: Position and Selection *)

Position_new(line, col) == [line |-> line, col |-> col]

Selection_cursor(pos) == [anchor |-> pos, head |-> pos]

Selection_new(anchor, head) == [anchor |-> anchor, head |-> head]

Selection_is_cursor(sel) == sel.anchor = sel.head

\* a faulty variant: the two ends are ordered by their lines alone
Selection_start_by_line(sel) ==
    IF sel.anchor.line <= sel.head.line THEN sel.anchor ELSE sel.head

Selection_start(sel) ==
    IF \/ sel.anchor.line < sel.head.line
       \/ (sel.anchor.line = sel.head.line /\ sel.anchor.col <= sel.head.col)
    THEN sel.anchor
    ELSE sel.head

Selection_end(sel) ==
    IF \/ sel.anchor.line > sel.head.line
       \/ (sel.anchor.line = sel.head.line /\ sel.anchor.col >= sel.head.col)
    THEN sel.anchor
    ELSE sel.head

\* the head moved by delta along one coordinate
moved(coord, delta) ==
    IF delta < 0 THEN saturating_sub(coord, unsigned_abs(delta))
    ELSE saturating_add(coord, delta)

\* a faulty variant: the line is moved in wrapping arithmetic
Selection_move_lines_wrapping(sel, delta, extend) ==
    LET head == [sel.head EXCEPT !.line = (sel.head.line + delta) % (UsizeMax + 1)]
    IN  [anchor |-> IF ~extend THEN head ELSE sel.anchor, head |-> head]

Selection_move_lines(sel, delta, extend) ==
    LET new_line == moved(sel.head.line, delta)
        head == [sel.head EXCEPT !.line = new_line]
    IN  [anchor |-> IF ~extend THEN head ELSE sel.anchor, head |-> head]

Selection_move_cols(sel, delta, extend) ==
    LET new_col == moved(sel.head.col, delta)
        head == [sel.head EXCEPT !.col = new_col]
    IN  [anchor |-> IF ~extend THEN head ELSE sel.anchor, head |-> head]

-----------------------------------------------------------------------------
(* history.rs: Edit *)

Edit_insert(position, text, cursor_before, cursor_after) ==
    [position |-> position, deleted |-> <<>>, inserted |-> text,
     cursor_before |-> cursor_before, cursor_after |-> cursor_after]

Edit_delete(position, text, cursor_before, cursor_after) ==
    [position |-> position, deleted |-> text, inserted |-> <<>>,
     cursor_before |-> cursor_before, cursor_after |-> cursor_after]

-----------------------------------------------------------------------------
(* history.rs: History.  Every method is an operator from the object to    *)
(* the object it leaves; undo and redo also give the value returned.       *)

History_with_max_size(max_size) ==
    [undo_stack |-> <<>>, redo_stack |-> <<>>, max_size |-> max_size]

History_new == History_with_max_size(DefaultMaxSize)

\* #[derive(Default)]: empty stacks and a max_size of 0
History_default == [undo_stack |-> <<>>, redo_stack |-> <<>>, max_size |-> 0]

\* a faulty variant: the redo stack survives a new record
History_record_keeps_redo(h, edit) ==
    LET pushed == Append(h.undo_stack, edit)
    IN  [h EXCEPT !.undo_stack =
            IF Len(pushed) > h.max_size THEN Tail(pushed) ELSE pushed]

\* a faulty variant: the undo stack is never trimmed
History_record_no_trim(h, edit) ==
    [h EXCEPT !.redo_stack = <<>>, !.undo_stack = Append(h.undo_stack, edit)]

\* a faulty variant: the trim drops the newest entry instead of the oldest
History_record_trims_newest(h, edit) ==
    LET pushed == Append(h.undo_stack, edit)
    IN  [h EXCEPT !.redo_stack = <<>>,
                  !.undo_stack =
                      IF Len(pushed) > h.max_size THEN Front(pushed) ELSE pushed]

History_record(h, edit) ==
    LET pushed == Append(h.undo_stack, edit)
    IN  [h EXCEPT !.redo_stack = <<>>,
                  !.undo_stack =
                      IF Len(pushed) > h.max_size THEN Tail(pushed) ELSE pushed]

\* a faulty variant: undo forgets to push the record onto the redo stack
History_undo_drops(h) ==
    IF h.undo_stack # <<>>
    THEN [history |-> [h EXCEPT !.undo_stack = Front(h.undo_stack)],
          ret |-> <<Last(h.undo_stack)>>]
    ELSE [history |-> h, ret |-> <<>>]

History_undo(h) ==
    IF h.undo_stack # <<>>
    THEN [history |-> [h EXCEPT !.undo_stack = Front(h.undo_stack),
                                !.redo_stack = Append(h.redo_stack, Last(h.undo_stack))],
          ret |-> <<Last(h.undo_stack)>>]
    ELSE [history |-> h, ret |-> <<>>]

\* a faulty variant: redo forgets to push the record back onto the undo stack
History_redo_drops(h) ==
    IF h.redo_stack # <<>>
    THEN [history |-> [h EXCEPT !.redo_stack = Front(h.redo_stack)],
          ret |-> <<Last(h.redo_stack)>>]
    ELSE [history |-> h, ret |-> <<>>]

\* a faulty variant: redo takes the oldest undone entry instead of the most recent
History_redo_oldest(h) ==
    IF h.redo_stack # <<>>
    THEN [history |-> [h EXCEPT !.redo_stack = Tail(h.redo_stack),
                                !.undo_stack = Append(h.undo_stack, Head(h.redo_stack))],
          ret |-> <<Head(h.redo_stack)>>]
    ELSE [history |-> h, ret |-> <<>>]

History_redo(h) ==
    IF h.redo_stack # <<>>
    THEN [history |-> [h EXCEPT !.redo_stack = Front(h.redo_stack),
                                !.undo_stack = Append(h.undo_stack, Last(h.redo_stack))],
          ret |-> <<Last(h.redo_stack)>>]
    ELSE [history |-> h, ret |-> <<>>]

History_can_undo(h) == h.undo_stack # <<>>

History_can_redo(h) == h.redo_stack # <<>>

History_clear(h) == [h EXCEPT !.undo_stack = <<>>, !.redo_stack = <<>>]

History_undo_count(h) == Len(h.undo_stack)

History_redo_count(h) == Len(h.redo_stack)

-----------------------------------------------------------------------------
(* buffer.rs: Buffer, over ropey's Rope.  The rope is the sequence of its  *)
(* characters.  The model's alphabet has two of ropey's line breaks: LF    *)
(* and CR, which together, as CRLF, are one line break; ropey's other      *)
(* line breaks (VT, FF, NEL, LS, PS) are single characters that behave as  *)
(* LF does and are not in it.  WideChar is a character whose UTF-8         *)
(* encoding takes two bytes, such as U+00E9.                               *)

NL == "\n"
CR == "\r"
WideChar == "U+00E9"
Chars == {"a", NL, CR, WideChar}
\* the characters the rope tells apart: it counts characters, never bytes, so
\* that a wide character is to it what "a" is
RopeChars == {"a", NL, CR}

\* a line break ends at 1-based index i: an LF, or a CR that no LF follows
IsBreakEnd(t, i) == t[i] = NL \/ (t[i] = CR /\ (i = Len(t) \/ t[i + 1] # NL))

\* the 1-based indices at which the line breaks of a text end
Breaks(t) == { i \in 1..Len(t) : IsBreakEnd(t, i) }

\* Rope::len_chars
len_chars(t) == Len(t)

\* a faulty variant: the lines are the line breaks, the text after the last one
\* is not a line
len_lines_only_breaks(t) == Cardinality(Breaks(t))

\* a faulty variant: a line break at the very end of the text opens no line,
\* as in str::lines
len_lines_no_trailing(t) ==
    IF Len(t) > 0 /\ IsBreakEnd(t, Len(t)) THEN Cardinality(Breaks(t))
    ELSE Cardinality(Breaks(t)) + 1

\* Rope::len_lines: one more than the number of line breaks
len_lines(t) == Cardinality(Breaks(t)) + 1

\* Rope::line_to_char(line), for line <= len_lines: the offset of the line's first
\* character; the line one past the last starts at len_chars
line_to_char(t, line) ==
    IF line = 0 THEN 0
    ELSE IF line >= len_lines(t) THEN Len(t)
    ELSE CHOOSE i \in Breaks(t) : Cardinality({ j \in Breaks(t) : j < i }) = line - 1

\* a faulty variant: the line break itself is counted to the line it opens
char_to_line_counts_break(t, char_idx) ==
    Cardinality({ i \in Breaks(t) : i <= char_idx + 1 })

\* Rope::char_to_line(char_idx), for char_idx <= len_chars: the number of line
\* breaks before the offset
char_to_line(t, char_idx) == Cardinality({ i \in Breaks(t) : i <= char_idx })

\* Rope::line(line), for line < len_lines: the line with its line break, if it has one
rope_line(t, line) ==
    SubSeq(t, line_to_char(t, line) + 1,
           IF line + 1 < len_lines(t) THEN line_to_char(t, line + 1) ELSE Len(t))

Buffer_new == [text |-> <<>>, modified |-> FALSE]

Buffer_from_str(text) == [text |-> text, modified |-> FALSE]

Buffer_text(b) == b.text

Buffer_len_lines(b) == len_lines(b.text)

Buffer_len_chars(b) == len_chars(b.text)

\* a faulty variant: the line index is not checked against len_lines
Buffer_line_unchecked(b, line_idx) == <<rope_line(b.text, line_idx)>>

\* Buffer::line: <<>> is None, <<l>> is Some(l)
Buffer_line(b, line_idx) ==
    IF line_idx < len_lines(b.text) THEN <<rope_line(b.text, line_idx)>> ELSE <<>>

\* Rope::insert panics when char_idx > len_chars; ropey checks the index before
\* it touches the rope
Buffer_insert_panics(b, char_idx) == char_idx > Len(b.text)

Buffer_insert(b, char_idx, text) ==
    [text |-> SubSeq(b.text, 1, char_idx) \o text \o SubSeq(b.text, char_idx + 1, Len(b.text)),
     modified |-> TRUE]

\* Rope::remove panics when start > end or end > len_chars; ropey checks the
\* range before it touches the rope
Buffer_delete_panics(b, start, end) == start > end \/ end > Len(b.text)

\* a faulty variant: delete forgets to set the modified flag
Buffer_delete_keeps_flag(b, start, end) ==
    [b EXCEPT !.text = SubSeq(b.text, 1, start) \o SubSeq(b.text, end + 1, Len(b.text))]

Buffer_delete(b, start, end) ==
    [text |-> SubSeq(b.text, 1, start) \o SubSeq(b.text, end + 1, Len(b.text)),
     modified |-> TRUE]

\* Rope::remove panics as in delete; the insert at start that follows it is
\* always in range
Buffer_replace_panics(b, start, end) == start > end \/ end > Len(b.text)

Buffer_replace(b, start, end, text) ==
    [text |-> SubSeq(b.text, 1, start) \o text \o SubSeq(b.text, end + 1, Len(b.text)),
     modified |-> TRUE]

\* Rope::line panics when line >= len_lines
Buffer_line_col_to_char_panics(b, line) == line >= len_lines(b.text)

\* a faulty variant: the column is not clamped at all
Buffer_line_col_to_char_unclamped(b, line, col) ==
    line_to_char(b.text, line) + col

Buffer_line_col_to_char(b, line, col) ==
    LET line_start == line_to_char(b.text, line)
        line_len == Len(rope_line(b.text, line))
    IN  line_start + Min(col, saturating_sub(line_len, 1))

\* Rope::char_to_line panics when char_idx > len_chars
Buffer_char_to_line_col_panics(b, char_idx) == char_idx > Len(b.text)

\* a faulty variant: the line is found with the line break counted to the line it opens
Buffer_char_to_line_col_break(b, char_idx) ==
    LET line == char_to_line_counts_break(b.text, char_idx)
        line_start == line_to_char(b.text, line)
    IN  <<line, char_idx - line_start>>

Buffer_char_to_line_col(b, char_idx) ==
    LET line == char_to_line(b.text, char_idx)
        line_start == line_to_char(b.text, line)
        col == char_idx - line_start
    IN  <<line, col>>

Buffer_is_modified(b) == b.modified

Buffer_mark_saved(b) == [b EXCEPT !.modified = FALSE]

\* Rope::slice panics when start > end or end > len_chars
Buffer_slice_panics(b, start, end) == start > end \/ end > Len(b.text)

Buffer_slice(b, start, end) == SubSeq(b.text, start + 1, end)

-----------------------------------------------------------------------------
(* str methods of the standard library that frontmatter.rs uses.  Offsets  *)
(* into a str are byte offsets; find and the slices taken at what it       *)
(* returns use the same unit, and the delimiters are ASCII, so that the    *)
(* model counts characters on both sides.                                  *)

\* char::is_whitespace, on the characters of the model
IsWhitespace(c) == c \in {" ", NL, CR}

RECURSIVE trim_start(_)
trim_start(s) ==
    IF s # <<>> /\ IsWhitespace(Head(s)) THEN trim_start(Tail(s)) ELSE s

RECURSIVE trim_end(_)
trim_end(s) ==
    IF s # <<>> /\ IsWhitespace(Last(s)) THEN trim_end(Front(s)) ELSE s

trim(s) == trim_end(trim_start(s))

RECURSIVE trim_start_matches(_, _)
trim_start_matches(s, c) ==
    IF s # <<>> /\ Head(s) = c THEN trim_start_matches(Tail(s), c) ELSE s

starts_with(s, prefix) ==
    Len(s) >= Len(prefix) /\ SubSeq(s, 1, Len(prefix)) = prefix

\* the 0-based offsets at which pat occurs in s
Occurrences(s, pat) ==
    { i \in 0..(Len(s) - Len(pat)) : SubSeq(s, i + 1, i + Len(pat)) = pat }

\* str::find: the offset of the first occurrence, <<>> for None
str_find(s, pat) ==
    IF Occurrences(s, pat) = {} THEN <<>>
    ELSE <<CHOOSE i \in Occurrences(s, pat) : \A k \in Occurrences(s, pat) : i <= k>>

\* the offset of the first sep in s, Len(s) if there is none
FirstSep(s, sep) ==
    IF \A i \in 1..Len(s) : s[i] # sep THEN Len(s)
    ELSE (CHOOSE i \in 1..Len(s) : s[i] = sep /\ \A k \in 1..(i - 1) : s[k] # sep) - 1

RECURSIVE split(_, _)
\* str::split(sep): the pieces between the separators
split(s, sep) ==
    IF FirstSep(s, sep) = Len(s) THEN <<s>>
    ELSE <<SubSeq(s, 1, FirstSep(s, sep))>>
             \o split(SubSeq(s, FirstSep(s, sep) + 2, Len(s)), sep)

-----------------------------------------------------------------------------
(* frontmatter.rs: Frontmatter.  serde_yaml and toml are modelled on the   *)
(* documents the model feeds them: lines "key:" and "key: value" for YAML, *)
(* lines key = "value" for TOML, keys and values made of PlainChars.  Of   *)
(* the other texts the model feeds them none is a YAML mapping or a TOML   *)
(* table.                                                                  *)

Dashes == <<"-", "-", "-">>
Pluses == <<"+", "+", "+">>

\* the characters of the keys and the plain values of the model
PlainChars == {"a", "t", "i", "l", "e", WideChar}

IsPlain(s) == s # <<>> /\ \A i \in 1..Len(s) : s[i] \in PlainChars

ParseOk(data) == [ok |-> TRUE, data |-> data]
ParseErr == [ok |-> FALSE, data |-> {}]

NullValue == [kind |-> "null", str |-> <<>>]
StringValue(v) == [kind |-> "string", str |-> v]

\* one line of a YAML mapping: the key before the first ":", then nothing
\* (a null) or a space and a plain value
YamlKey(l) == SubSeq(l, 1, FirstSep(l, ":"))
YamlRest(l) == SubSeq(l, FirstSep(l, ":") + 2, Len(l))
IsYamlEntry(l) ==
    /\ FirstSep(l, ":") < Len(l)
    /\ IsPlain(YamlKey(l))
    /\ YamlRest(l) = <<>> \/ (Head(YamlRest(l)) = " " /\ IsPlain(trim(YamlRest(l))))
YamlEntry(l) ==
    [key |-> YamlKey(l),
     value |-> IF YamlRest(l) = <<>> THEN NullValue ELSE StringValue(trim(YamlRest(l)))]

\* a line of a payload that holds nothing
IsBlank(l) == trim(l) = <<>>
HoldsText(l) == ~IsBlank(l)

\* Frontmatter::parse_yaml: the mapping as key-value data, blank lines between
\* the entries skipped; an empty document is a null, a plain text a string, and
\* neither is an object
parse_yaml(raw) ==
    LET lines == SelectSeq(split(raw, NL), HoldsText)
    IN  IF lines # <<>> /\ \A k \in 1..Len(lines) : IsYamlEntry(lines[k])
        THEN ParseOk({ YamlEntry(lines[k]) : k \in 1..Len(lines) })
        ELSE ParseErr

\* one line of a TOML table: key = "value"
TomlKey(l) == trim(SubSeq(l, 1, FirstSep(l, "=")))
TomlRest(l) == trim(SubSeq(l, FirstSep(l, "=") + 2, Len(l)))
IsTomlEntry(l) ==
    /\ FirstSep(l, "=") < Len(l)
    /\ IsPlain(TomlKey(l))
    /\ Len(TomlRest(l)) >= 3
    /\ Head(TomlRest(l)) = "\"" /\ Last(TomlRest(l)) = "\""
    /\ IsPlain(SubSeq(TomlRest(l), 2, Len(TomlRest(l)) - 1))
TomlEntry(l) ==
    [key |-> TomlKey(l),
     value |-> StringValue(SubSeq(TomlRest(l), 2, Len(TomlRest(l)) - 1))]

\* Frontmatter::parse_toml: the table as key-value data, blank lines between
\* the entries skipped; the empty document is the empty table
parse_toml(raw) ==
    LET lines == SelectSeq(split(raw, NL), HoldsText)
    IN  IF \A k \in 1..Len(lines) : IsTomlEntry(lines[k])
        THEN ParseOk({ TomlEntry(lines[k]) : k \in 1..Len(lines) })
        ELSE ParseErr

\* the block between an opening delim and the first "\n" delim after it, parsed:
\* <<>> when there is no such block or it does not parse, else the frontmatter
\* and the body
Frontmatter_extract_block(trimmed, delim, format) ==
    IF ~starts_with(trimmed, delim) THEN <<>>
    ELSE LET found == str_find(SubSeq(trimmed, 4, Len(trimmed)), <<NL>> \o delim)
         IN  IF found = <<>> THEN <<>>
             ELSE LET end == found[1]
                      raw == trim(SubSeq(trimmed, 4, end + 3))
                      body_start == end + 7
                      body == trim_start_matches(
                                  SubSeq(trimmed, body_start + 1, Len(trimmed)), NL)
                      parsed == IF format = "Yaml" THEN parse_yaml(raw)
                                ELSE parse_toml(raw)
                  IN  IF parsed.ok
                      THEN <<[frontmatter |-> <<[format |-> format, raw |-> raw,
                                                 data |-> parsed.data]>>,
                              body |-> body]>>
                      ELSE <<>>

\* a faulty variant: without frontmatter the body is the content trimmed
Frontmatter_extract_trimmed(content) ==
    LET trimmed == trim_start(content)
        yaml == Frontmatter_extract_block(trimmed, Dashes, "Yaml")
        toml == Frontmatter_extract_block(trimmed, Pluses, "Toml")
    IN  IF yaml # <<>> THEN yaml[1]
        ELSE IF toml # <<>> THEN toml[1]
        ELSE [frontmatter |-> <<>>, body |-> trimmed]

\* Frontmatter::extract: [frontmatter |-> <<>> or <<fm>>, body |-> the body]
Frontmatter_extract(content) ==
    LET trimmed == trim_start(content)
        yaml == Frontmatter_extract_block(trimmed, Dashes, "Yaml")
        toml == Frontmatter_extract_block(trimmed, Pluses, "Toml")
    IN  IF yaml # <<>> THEN yaml[1]
        ELSE IF toml # <<>> THEN toml[1]
        ELSE [frontmatter |-> <<>>, body |-> content]

\* Frontmatter::get: <<>> for None
Frontmatter_get(fm, key) ==
    IF \E e \in fm.data : e.key = key
    THEN <<(CHOOSE e \in fm.data : e.key = key).value>>
    ELSE <<>>

\* Display of serde_json::Value, which is what to_string() of a Value gives:
\* the value as JSON text, a string between double quotes
Value_to_string(v) ==
    IF v.kind = "string" THEN <<"\"">> \o v.str \o <<"\"">>
    ELSE <<"n", "u", "l", "l">>

\* Frontmatter::to_string
Frontmatter_to_string(fm) ==
    IF fm.format = "Yaml" THEN Dashes \o <<NL>> \o fm.raw \o <<NL>> \o Dashes
    ELSE Pluses \o <<NL>> \o fm.raw \o <<NL>> \o Pluses

-----------------------------------------------------------------------------
(* parser.rs: MarkdownParser::to_html, for text made of letters and line   *)
(* feeds, which has no Markdown syntax in it: comrak renders each run of   *)
(* non-blank lines as a paragraph, its lines joined by a line feed.        *)
(* "<p>" and "</p>" are single tokens of the rendering.                    *)

RECURSIVE md_render(_, _, _)
\* the rendering of the rest t of the text, in_par telling whether a paragraph
\* is open and at_start whether t begins at the start of a line
md_render(t, in_par, at_start) ==
    IF t = <<>> THEN (IF in_par THEN <<"</p>", NL>> ELSE <<>>)
    ELSE IF Head(t) = NL
    THEN IF at_start /\ in_par
         THEN <<"</p>", NL>> \o md_render(Tail(t), FALSE, TRUE)
         ELSE md_render(Tail(t), in_par, TRUE)
    ELSE (IF ~in_par THEN <<"<p>">> ELSE IF at_start THEN <<NL>> ELSE <<>>)
             \o <<Head(t)>> \o md_render(Tail(t), TRUE, FALSE)

MarkdownParser_to_html(markdown) == md_render(markdown, FALSE, TRUE)

-----------------------------------------------------------------------------
(* document.rs: Document.  <<>> is None and <<v>> is Some(v) in the        *)
(* optional fields frontmatter, path and cached_html.                      *)

Document_new ==
    [buffer |-> Buffer_new, frontmatter |-> <<>>, path |-> <<>>,
     history |-> History_new, cursor |-> <<0, 0>>, scroll_offset |-> 0,
     cached_html |-> <<>>, html_dirty |-> TRUE]

\* Buffer::from_text, which document.rs calls and buffer.rs does not have: a
\* new buffer that holds the text
Buffer_from_text(text) == Buffer_from_str(text)

\* the document of an extracted frontmatter and body
Document_from_extracted(x) ==
    [buffer |-> Buffer_from_text(x.body), frontmatter |-> x.frontmatter, path |-> <<>>,
     history |-> History_new, cursor |-> <<0, 0>>, scroll_offset |-> 0,
     cached_html |-> <<>>, html_dirty |-> TRUE]

Document_from_content(content) == Document_from_extracted(Frontmatter_extract(content))

\* the paths of the model; std::fs::write to an Unwritable path (one in a
\* directory that does not exist, a directory, the empty path) fails and
\* writes nothing, and there is never a file to read at one
Paths == {"p.md", "bad/p.md", ".."}
Unwritable == {"bad/p.md", "..", ""}

\* Path::file_name: the last component of the path, <<>> (None) when the path
\* ends with ".."
Path_file_name(path) ==
    IF path = ".." THEN <<>> ELSE <<<<"p", ".", "m", "d">>>>

\* std::fs::read_to_string: <<>> for Err, <<content>> for Ok(content)
fs_read(files, path) == files[path]

\* std::fs::write
fs_write(files, path, content) ==
    IF path \in Unwritable THEN [ok |-> FALSE, files |-> files]
    ELSE [ok |-> TRUE, files |-> [files EXCEPT ![path] = <<content>>]]

\* a faulty variant: the path of the file is not kept
Document_from_file_no_path(files, path) ==
    IF fs_read(files, path) = <<>> THEN <<>>
    ELSE <<[Document_from_content(fs_read(files, path)[1])
                EXCEPT !.buffer = Buffer_mark_saved(@)]>>

\* Document::from_file: <<>> for Err, <<doc>> for Ok(doc)
Document_from_file(files, path) ==
    IF fs_read(files, path) = <<>> THEN <<>>
    ELSE <<[Document_from_content(fs_read(files, path)[1])
                EXCEPT !.path = <<path>>, !.buffer = Buffer_mark_saved(@)]>>

Document_full_content(d) ==
    IF d.frontmatter # <<>>
    THEN Frontmatter_to_string(d.frontmatter[1]) \o <<NL>> \o Buffer_text(d.buffer)
    ELSE Buffer_text(d.buffer)

\* the result of save and save_as: the document, the files, Ok or the Err kind
SaveResult(d, files, err) == [doc |-> d, files |-> files, ok |-> err = "", err |-> err]

\* a faulty variant: without a path there is nothing to do, and that is Ok
Document_save_silent(d, files) ==
    IF d.path # <<>>
    THEN LET w == fs_write(files, d.path[1], Document_full_content(d))
         IN  IF w.ok THEN SaveResult([d EXCEPT !.buffer = Buffer_mark_saved(@)], w.files, "")
             ELSE SaveResult(d, files, "io")
    ELSE SaveResult([d EXCEPT !.buffer = Buffer_mark_saved(@)], files, "")

\* a faulty variant: the frontmatter is not written
Document_save_body_only(d, files) ==
    IF d.path # <<>>
    THEN LET w == fs_write(files, d.path[1], Buffer_text(d.buffer))
         IN  IF w.ok THEN SaveResult([d EXCEPT !.buffer = Buffer_mark_saved(@)], w.files, "")
             ELSE SaveResult(d, files, "io")
    ELSE SaveResult(d, files, "NotFound")

\* a faulty variant: the buffer is marked saved whether or not the write succeeds
Document_save_marks_always(d, files) ==
    IF d.path # <<>>
    THEN LET w == fs_write(files, d.path[1], Document_full_content(d))
         IN  IF w.ok THEN SaveResult([d EXCEPT !.buffer = Buffer_mark_saved(@)], w.files, "")
             ELSE SaveResult([d EXCEPT !.buffer = Buffer_mark_saved(@)], files, "io")
    ELSE SaveResult(d, files, "NotFound")

Document_save(d, files) ==
    IF d.path # <<>>
    THEN LET w == fs_write(files, d.path[1], Document_full_content(d))
         IN  IF w.ok THEN SaveResult([d EXCEPT !.buffer = Buffer_mark_saved(@)], w.files, "")
             ELSE SaveResult(d, files, "io")
    ELSE SaveResult(d, files, "NotFound")

\* a faulty variant: the path is set only once the write has succeeded
Document_save_as_path_on_success(d, files, path) ==
    LET r == Document_save([d EXCEPT !.path = <<path>>], files)
    IN  IF r.ok THEN r ELSE SaveResult(d, files, r.err)

Document_save_as(d, files, path) == Document_save([d EXCEPT !.path = <<path>>], files)

TitleKey == <<"t", "i", "t", "l", "e">>
Untitled == <<"U", "n", "t", "i", "t", "l", "e", "d">>

\* Document::title
Document_title(d) ==
    IF d.frontmatter # <<>> /\ Frontmatter_get(d.frontmatter[1], TitleKey) # <<>>
    THEN Value_to_string(Frontmatter_get(d.frontmatter[1], TitleKey)[1])
    ELSE IF d.path # <<>> /\ Path_file_name(d.path[1]) # <<>>
    THEN Path_file_name(d.path[1])[1]
    ELSE Untitled

Document_is_modified(d) == Buffer_is_modified(d.buffer)

Document_invalidate_cache(d) == [d EXCEPT !.html_dirty = TRUE]

\* a faulty variant: a cached rendering is returned even when it is dirty
Document_html_ignores_dirty(d) ==
    IF d.cached_html = <<>>
    THEN [doc |-> [d EXCEPT !.cached_html = <<MarkdownParser_to_html(Buffer_text(d.buffer))>>,
                            !.html_dirty = FALSE],
          ret |-> MarkdownParser_to_html(Buffer_text(d.buffer))]
    ELSE [doc |-> d, ret |-> d.cached_html[1]]

\* a faulty variant: the rendering is computed afresh at every call
Document_html_uncached(d) ==
    [doc |-> [d EXCEPT !.cached_html = <<MarkdownParser_to_html(Buffer_text(d.buffer))>>,
                       !.html_dirty = FALSE],
     ret |-> MarkdownParser_to_html(Buffer_text(d.buffer))]

\* Document::html: the document it leaves and the rendering it returns
Document_html(d) ==
    IF d.html_dirty \/ d.cached_html = <<>>
    THEN [doc |-> [d EXCEPT !.cached_html = <<MarkdownParser_to_html(Buffer_text(d.buffer))>>,
                            !.html_dirty = FALSE],
          ret |-> MarkdownParser_to_html(Buffer_text(d.buffer))]
    ELSE [doc |-> d, ret |-> d.cached_html[1]]

-----------------------------------------------------------------------------
(* tui/app.rs: the TUI state.  Of its fields the model keeps the open      *)
(* documents, the active index, the quit flag, the status message and the  *)
(* input prompt; the theme, the view mode and zen mode are left out.       *)
(* input_prompt is <<>> for None and <<[prompt, buffer, cursor]>> for Some. *)

\* App::new
TuiApp_new ==
    [documents |-> <<Document_new>>, active_doc |-> 0, should_quit |-> FALSE,
     status_message |-> <<>>, input_mode |-> "Normal", input_prompt |-> <<>>]

TuiApp_has_unsaved_changes(t) ==
    \E i \in 1..Len(t.documents) : Document_is_modified(t.documents[i])

TuiApp_set_status(t, msg) == [t EXCEPT !.status_message = <<msg>>]

TuiApp_clear_status(t) == [t EXCEPT !.status_message = <<>>]

\* open_document: the active index is documents.len() - 1 after the push
TuiApp_open_document(t, doc) ==
    [t EXCEPT !.documents = Append(t.documents, doc),
              !.active_doc = Len(t.documents)]

\* Vec::remove(index)
Vec_remove(v, index) == SubSeq(v, 1, index) \o SubSeq(v, index + 2, Len(v))

\* a faulty variant: the active index is left as it is when the last tab is closed
TuiApp_close_active_document_unclamped(t) ==
    IF Len(t.documents) > 1
    THEN [t EXCEPT !.documents = Vec_remove(t.documents, t.active_doc)]
    ELSE t

TuiApp_close_active_document(t) ==
    IF Len(t.documents) > 1
    THEN [t EXCEPT !.documents = Vec_remove(t.documents, t.active_doc),
                   !.active_doc = IF t.active_doc >= Len(t.documents) - 1
                                  THEN Len(t.documents) - 1 - 1
                                  ELSE t.active_doc]
    ELSE t

TuiApp_next_document(t) ==
    IF t.active_doc < Len(t.documents) - 1
    THEN [t EXCEPT !.active_doc = t.active_doc + 1]
    ELSE [t EXCEPT !.active_doc = 0]

TuiApp_prev_document(t) ==
    IF t.active_doc > 0
    THEN [t EXCEPT !.active_doc = t.active_doc - 1]
    ELSE [t EXCEPT !.active_doc = Len(t.documents) - 1]

TuiApp_quit(t) == [t EXCEPT !.should_quit = TRUE]

OpenPrompt == "Open file: "
SaveAsPrompt == "Save as: "

TuiApp_start_open_prompt(t) ==
    [t EXCEPT !.input_mode = "OpenFile",
              !.input_prompt = <<[prompt |-> OpenPrompt, buffer |-> <<>>, cursor |-> 0]>>]

TuiApp_start_save_as_prompt(t) ==
    [t EXCEPT !.input_mode = "SaveAs",
              !.input_prompt = <<[prompt |-> SaveAsPrompt, buffer |-> <<>>, cursor |-> 0]>>]

\* a faulty variant: the prompt is left in place
TuiApp_cancel_input_keeps_prompt(t) == [t EXCEPT !.input_mode = "Normal"]

TuiApp_cancel_input(t) == [t EXCEPT !.input_mode = "Normal", !.input_prompt = <<>>]

\* finish_input: the state it leaves and what it returns, <<>> for None and
\* <<buffer>> for Some(buffer)
TuiApp_finish_input(t) ==
    IF t.input_prompt # <<>>
    THEN [tui |-> [t EXCEPT !.input_prompt = <<>>, !.input_mode = "Normal"],
          ret |-> <<t.input_prompt[1].buffer>>]
    ELSE [tui |-> t, ret |-> <<>>]

TuiApp_is_input_mode(t) == t.input_mode # "Normal"

-----------------------------------------------------------------------------
(* app.rs: the controller.  A handler is an operator from the active       *)
(* document to [doc |-> the document it leaves, panic |-> whether it       *)
(* panicked]; after a panic the document is of no interest.                *)

\* String::len: the length in bytes of the UTF-8 encoding
utf8_len(c) == IF c = WideChar THEN 2 ELSE 1

RECURSIVE str_len(_)
str_len(s) == IF s = <<>> THEN 0 ELSE utf8_len(Head(s)) + str_len(Tail(s))

RECURSIVE trim_end_newlines(_)
\* str::trim_end_matches('\n')
trim_end_newlines(s) ==
    IF s # <<>> /\ Last(s) = NL THEN trim_end_newlines(Front(s)) ELSE s

App_line_length(doc, line_idx) ==
    LET l == Buffer_line(doc.buffer, line_idx)
    IN  IF l = <<>> THEN 0 ELSE str_len(trim_end_newlines(l[1]))

App_cursor_selection(doc) == Selection_cursor(Position_new(doc.cursor[1], doc.cursor[2]))

Ok(doc) == [doc |-> doc, panic |-> FALSE]
Panic(doc) == [doc |-> doc, panic |-> TRUE]

\* a faulty variant: the view only scrolls up
App_ensure_cursor_visible_up_only(doc, terminal_height) ==
    [doc EXCEPT !.scroll_offset =
        IF doc.cursor[1] < doc.scroll_offset THEN doc.cursor[1] ELSE doc.scroll_offset]

App_ensure_cursor_visible(doc, terminal_height) ==
    LET cursor_line == doc.cursor[1]
        visible_lines == saturating_sub(terminal_height, 3)
        up == IF cursor_line < doc.scroll_offset THEN cursor_line ELSE doc.scroll_offset
        bottom_visible_line == up + saturating_sub(visible_lines, 1)
    IN  [doc EXCEPT !.scroll_offset =
            IF cursor_line > bottom_visible_line
            THEN saturating_sub(cursor_line, saturating_sub(visible_lines, 1))
            ELSE up]

\* insert_char, from the offset of the cursor on
App_insert_char_at(doc, c, pos) ==
    LET cursor_before == App_cursor_selection(doc)
        text == <<c>>
        d1 == [doc EXCEPT !.buffer = Buffer_insert(doc.buffer, pos, text),
                          !.cursor = <<doc.cursor[1], doc.cursor[2] + 1>>]
        cursor_after == App_cursor_selection(d1)
    IN  Ok([d1 EXCEPT !.history =
                History_record(doc.history, Edit_insert(pos, text, cursor_before, cursor_after))])

App_insert_char(doc, c) ==
    IF Buffer_line_col_to_char_panics(doc.buffer, doc.cursor[1]) THEN Panic(doc)
    ELSE App_insert_char_at(doc, c,
            Buffer_line_col_to_char(doc.buffer, doc.cursor[1], doc.cursor[2]))

\* insert_newline, from the offset of the cursor on
App_insert_newline_at(doc, pos) ==
    LET cursor_before == App_cursor_selection(doc)
        d1 == [doc EXCEPT !.buffer = Buffer_insert(doc.buffer, pos, <<NL>>),
                          !.cursor = <<doc.cursor[1] + 1, 0>>]
        cursor_after == App_cursor_selection(d1)
    IN  Ok([d1 EXCEPT !.history =
                History_record(doc.history, Edit_insert(pos, <<NL>>, cursor_before, cursor_after))])

App_insert_newline(doc) ==
    IF Buffer_line_col_to_char_panics(doc.buffer, doc.cursor[1]) THEN Panic(doc)
    ELSE App_insert_newline_at(doc,
            Buffer_line_col_to_char(doc.buffer, doc.cursor[1], doc.cursor[2]))

\* delete_backward's cursor update, on the document with the character deleted
App_delete_backward_cursor(d1) ==
    IF d1.cursor[2] > 0
    THEN <<d1.cursor[1], d1.cursor[2] - 1>>
    ELSE IF d1.cursor[1] > 0
    THEN <<d1.cursor[1] - 1, App_line_length(d1, d1.cursor[1] - 1)>>
    ELSE d1.cursor

\* delete_backward, from the offset of the cursor on
App_delete_backward_at(doc, pos) ==
    IF pos > 0
    THEN LET cursor_before == App_cursor_selection(doc)
             deleted == Buffer_slice(doc.buffer, pos - 1, pos)
             d1 == [doc EXCEPT !.buffer = Buffer_delete(doc.buffer, pos - 1, pos)]
             d2 == [d1 EXCEPT !.cursor = App_delete_backward_cursor(d1)]
             cursor_after == App_cursor_selection(d2)
         IN  Ok([d2 EXCEPT !.history =
                    History_record(doc.history,
                        Edit_delete(pos - 1, deleted, cursor_before, cursor_after))])
    ELSE Ok(doc)

App_delete_backward(doc) ==
    IF Buffer_line_col_to_char_panics(doc.buffer, doc.cursor[1]) THEN Panic(doc)
    ELSE App_delete_backward_at(doc,
            Buffer_line_col_to_char(doc.buffer, doc.cursor[1], doc.cursor[2]))

\* delete_forward, from the offset of the cursor on
App_delete_forward_at(doc, pos) ==
    LET total_chars == Buffer_len_chars(doc.buffer)
    IN  IF pos < total_chars
        THEN LET cursor_before == App_cursor_selection(doc)
                 deleted == Buffer_slice(doc.buffer, pos, pos + 1)
                 d1 == [doc EXCEPT !.buffer = Buffer_delete(doc.buffer, pos, pos + 1)]
                 cursor_after == App_cursor_selection(d1)
             IN  Ok([d1 EXCEPT !.history =
                        History_record(doc.history,
                            Edit_delete(pos, deleted, cursor_before, cursor_after))])
        ELSE Ok(doc)

App_delete_forward(doc) ==
    IF Buffer_line_col_to_char_panics(doc.buffer, doc.cursor[1]) THEN Panic(doc)
    ELSE App_delete_forward_at(doc,
            Buffer_line_col_to_char(doc.buffer, doc.cursor[1], doc.cursor[2]))

\* a faulty variant: the span of a recorded text is measured in characters
App_span_len_chars(text) == Len(text)

\* the length the controller gives the span of a recorded text: String::len
App_span_len(text) == str_len(text)

\* undo's reversal of the edit the history returned, on the document d0 whose
\* history has it moved to the redo stack
App_undo_edit(d0, edit) ==
    LET del_end == edit.position + App_span_len(edit.inserted)
        d1 == IF edit.inserted # <<>>
              THEN [d0 EXCEPT !.buffer = Buffer_delete(d0.buffer, edit.position, del_end)]
              ELSE d0
    IN  IF edit.inserted # <<>> /\ Buffer_delete_panics(d0.buffer, edit.position, del_end)
        THEN Panic(d0)
        ELSE IF edit.deleted # <<>> /\ Buffer_insert_panics(d1.buffer, edit.position)
        THEN Panic(d1)
        ELSE Ok([d1 EXCEPT
                   !.buffer = IF edit.deleted # <<>>
                              THEN Buffer_insert(d1.buffer, edit.position, edit.deleted)
                              ELSE d1.buffer,
                   !.cursor = <<edit.cursor_before.head.line, edit.cursor_before.head.col>>])

\* undo, from the result r of history.undo() on
App_undo_with(doc, r) ==
    IF r.ret = <<>> THEN Ok(doc)
    ELSE App_undo_edit([doc EXCEPT !.history = r.history], r.ret[1])

App_undo(doc) == App_undo_with(doc, History_undo(doc.history))

\* redo's re-application of the edit the history returned, on the document d0
\* whose history has it moved back to the undo stack
App_redo_edit(d0, edit) ==
    LET del_end == edit.position + App_span_len(edit.deleted)
        d1 == IF edit.deleted # <<>>
              THEN [d0 EXCEPT !.buffer = Buffer_delete(d0.buffer, edit.position, del_end)]
              ELSE d0
    IN  IF edit.deleted # <<>> /\ Buffer_delete_panics(d0.buffer, edit.position, del_end)
        THEN Panic(d0)
        ELSE IF edit.inserted # <<>> /\ Buffer_insert_panics(d1.buffer, edit.position)
        THEN Panic(d1)
        ELSE Ok([d1 EXCEPT
                   !.buffer = IF edit.inserted # <<>>
                              THEN Buffer_insert(d1.buffer, edit.position, edit.inserted)
                              ELSE d1.buffer,
                   !.cursor = <<edit.cursor_after.head.line, edit.cursor_after.head.col>>])

\* redo, from the result r of history.redo() on
App_redo_with(doc, r) ==
    IF r.ret = <<>> THEN Ok(doc)
    ELSE App_redo_edit([doc EXCEPT !.history = r.history], r.ret[1])

App_redo(doc) == App_redo_with(doc, History_redo(doc.history))

\* handle_key's arms for the navigation keys
App_key_up(doc) ==
    IF doc.cursor[1] > 0
    THEN LET line == doc.cursor[1] - 1
         IN  [doc EXCEPT !.cursor = <<line, Min(doc.cursor[2], App_line_length(doc, line))>>]
    ELSE doc

App_key_down(doc) ==
    LET max_line == saturating_sub(Buffer_len_lines(doc.buffer), 1)
    IN  IF doc.cursor[1] < max_line
        THEN LET line == doc.cursor[1] + 1
             IN  [doc EXCEPT !.cursor = <<line, Min(doc.cursor[2], App_line_length(doc, line))>>]
        ELSE doc

App_key_left(doc) ==
    IF doc.cursor[2] > 0
    THEN [doc EXCEPT !.cursor = <<doc.cursor[1], doc.cursor[2] - 1>>]
    ELSE IF doc.cursor[1] > 0
    THEN [doc EXCEPT !.cursor = <<doc.cursor[1] - 1, App_line_length(doc, doc.cursor[1] - 1)>>]
    ELSE doc

App_key_right(doc) ==
    LET line_len == App_line_length(doc, doc.cursor[1])
    IN  IF doc.cursor[2] < line_len
        THEN [doc EXCEPT !.cursor = <<doc.cursor[1], doc.cursor[2] + 1>>]
        ELSE IF doc.cursor[1] < saturating_sub(Buffer_len_lines(doc.buffer), 1)
        THEN [doc EXCEPT !.cursor = <<doc.cursor[1] + 1, 0>>]
        ELSE doc

App_key_home(doc) == [doc EXCEPT !.cursor = <<doc.cursor[1], 0>>]

App_key_end(doc) ==
    [doc EXCEPT !.cursor = <<doc.cursor[1], App_line_length(doc, doc.cursor[1])>>]

App_key_page_up(doc, terminal_height) ==
    LET page_size == saturating_sub(terminal_height, 3)
        line == saturating_sub(doc.cursor[1], page_size)
    IN  [doc EXCEPT !.cursor = <<line, Min(doc.cursor[2], App_line_length(doc, line))>>,
                    !.scroll_offset = saturating_sub(doc.scroll_offset, page_size)]

App_key_page_down(doc, terminal_height) ==
    LET page_size == saturating_sub(terminal_height, 3)
        max_line == saturating_sub(Buffer_len_lines(doc.buffer), 1)
        line == Min(doc.cursor[1] + page_size, max_line)
    IN  [doc EXCEPT !.cursor = <<line, Min(doc.cursor[2], App_line_length(doc, line))>>,
                    !.scroll_offset = Min(doc.scroll_offset + page_size, max_line)]

\* the tab character
TAB == "\t"

RECURSIVE App_insert_spaces(_, _)
\* the Tab arm's loop over " ".repeat(tab_size), from the result r of the
\* inserts made so far on
App_insert_spaces(r, n) ==
    IF n = 0 \/ r.panic THEN r
    ELSE App_insert_spaces(App_insert_char(r.doc, " "), n - 1)

App_key_tab(doc, config) ==
    IF config.use_spaces THEN App_insert_spaces(Ok(doc), config.tab_size)
    ELSE App_insert_char(doc, TAB)

\* the keys of the model: [code |-> ..., c |-> the character of a Char key]
Key(code) == [code |-> code, c |-> ""]
KeyOfChar(c) == [code |-> "Char", c |-> c]

\* handle_key's match on key.code, for the keys that act on the active document
App_key_arm(doc, a, key) ==
    CASE key.code = "Char"      -> App_insert_char(doc, key.c)
      [] key.code = "Enter"     -> App_insert_newline(doc)
      [] key.code = "Tab"       -> App_key_tab(doc, a.config)
      [] key.code = "Backspace" -> App_delete_backward(doc)
      [] key.code = "Delete"    -> App_delete_forward(doc)
      [] key.code = "Ctrl+Z"    -> App_undo(doc)
      [] key.code = "Ctrl+Y"    -> App_redo(doc)
      [] key.code = "Up"        -> Ok(App_key_up(doc))
      [] key.code = "Down"      -> Ok(App_key_down(doc))
      [] key.code = "Left"      -> Ok(App_key_left(doc))
      [] key.code = "Right"     -> Ok(App_key_right(doc))
      [] key.code = "Home"      -> Ok(App_key_home(doc))
      [] key.code = "End"       -> Ok(App_key_end(doc))
      [] key.code = "PageUp"    -> Ok(App_key_page_up(doc, a.terminal_height))
      [] key.code = "PageDown"  -> Ok(App_key_page_down(doc, a.terminal_height))
      [] OTHER                  -> Ok(doc)

TuiApp_active_document(t) == t.documents[t.active_doc + 1]

\* a faulty variant: the key's result is written to the first document
App_handle_key_end_first(t, a, r) ==
    [tui |-> [t EXCEPT !.documents[1] =
                 IF r.panic THEN r.doc
                 ELSE App_ensure_cursor_visible(r.doc, a.terminal_height)],
     app |-> a,
     panic |-> r.panic]

\* handle_key in normal mode, from the result r of the key's arm on: the
\* cursor is scrolled into view
App_handle_key_end(t, a, r) ==
    [tui |-> [t EXCEPT !.documents[t.active_doc + 1] =
                 IF r.panic THEN r.doc
                 ELSE App_ensure_cursor_visible(r.doc, a.terminal_height)],
     app |-> a,
     panic |-> r.panic]

\* what a handler returns: the state it leaves, the files, whether it
\* panicked, and the error it returned ("" for Ok(()))
Handled(t, a, files, panic, err) ==
    [tui |-> t, app |-> a, files |-> files, panic |-> panic, err |-> err]

StatusUnsaved == "Unsaved changes! Press Ctrl+Q again to quit without saving."
StatusSaved == "Saved"
StatusOpenError == "Error opening file"
StatusSaveError == "Error saving file"

\* a faulty variant: Ctrl+Q quits at once
App_key_quit_at_once(t, a, files) == Handled(TuiApp_quit(t), a, files, FALSE, "")

\* handle_key's arm for Ctrl+Q
App_key_quit(t, a, files) ==
    IF TuiApp_has_unsaved_changes(t)
    THEN IF a.quit_pending
         THEN Handled(TuiApp_quit(t), a, files, FALSE, "")
         ELSE Handled(TuiApp_set_status(t, StatusUnsaved),
                      [a EXCEPT !.quit_pending = TRUE], files, FALSE, "")
    ELSE Handled(TuiApp_quit(t), a, files, FALSE, "")

\* save_document with a path, from the result r of doc.save() on
App_save_document_with(t, a, files, r) ==
    IF r.ok
    THEN Handled(TuiApp_set_status([t EXCEPT !.documents[t.active_doc + 1] = r.doc],
                                   StatusSaved),
                 a, r.files, FALSE, "")
    ELSE Handled([t EXCEPT !.documents[t.active_doc + 1] = r.doc], a, r.files, FALSE, r.err)

App_save_document(t, a, files) ==
    IF TuiApp_active_document(t).path # <<>>
    THEN App_save_document_with(t, a, files, Document_save(TuiApp_active_document(t), files))
    ELSE Handled(TuiApp_start_save_as_prompt(t), a, files, FALSE, "")

\* Path::exists: a file that can be read, or the directory ".."
Path_exists(files, path) == path = ".." \/ fs_read(files, path) # <<>>

\* open_file: [tui |-> the state it leaves, ok |-> whether it returned Ok(())]
App_open_file(t, files, path) ==
    IF Path_exists(files, path)
    THEN IF Document_from_file(files, path) = <<>>
         THEN [tui |-> t, ok |-> FALSE]
         ELSE [tui |-> TuiApp_open_document(t, Document_from_file(files, path)[1]),
               ok |-> TRUE]
    ELSE [tui |-> TuiApp_open_document(t, [Document_new EXCEPT !.path = <<path>>]),
          ok |-> TRUE]

App_new_document(t) == TuiApp_open_document(t, Document_new)

\* the keys of handle_key's arms for the application commands
CommandKeys ==
    {"Ctrl+Q", "Ctrl+S", "Ctrl+O", "Ctrl+N", "Ctrl+W", "Ctrl+Tab", "Ctrl+BackTab",
     "Alt+Right", "Alt+Left"}

\* handle_key's match on key.code, for the application commands
App_command_arm(t, a, files, key) ==
    CASE key.code = "Ctrl+Q" -> App_key_quit(t, a, files)
      [] key.code = "Ctrl+S" -> App_save_document(t, a, files)
      [] key.code = "Ctrl+O" -> Handled(TuiApp_start_open_prompt(t), a, files, FALSE, "")
      [] key.code = "Ctrl+N" -> Handled(App_new_document(t), a, files, FALSE, "")
      [] key.code = "Ctrl+W" -> Handled(TuiApp_close_active_document(t), a, files, FALSE, "")
      [] key.code \in {"Ctrl+Tab", "Alt+Right"} ->
            Handled(TuiApp_next_document(t), a, files, FALSE, "")
      [] key.code \in {"Ctrl+BackTab", "Alt+Left"} ->
            Handled(TuiApp_prev_document(t), a, files, FALSE, "")

\* handle_key after a command's arm, from its result c on: an Err leaves at
\* once, otherwise the cursor of the active document is scrolled into view
App_command_end(c) ==
    IF c.err # "" THEN c
    ELSE [c EXCEPT !.tui = App_handle_key_end(c.tui, c.app,
                               Ok(TuiApp_active_document(c.tui))).tui]

\* handle_key's arms on the active document, with the files they leave alone
App_document_key(t, a, files, r) == Handled(r.tui, r.app, files, r.panic, "")

\* handle_key in normal mode: the quit warning and the status message are
\* dropped unless the key is Ctrl+Q, the key's arm runs, and the cursor is
\* scrolled into view
App_handle_key_normal(t, a, files, key) ==
    IF key.code = "Ctrl+Q" THEN App_command_end(App_command_arm(t, a, files, key))
    ELSE IF key.code \in CommandKeys
    THEN App_command_end(App_command_arm(TuiApp_clear_status(t),
                                         [a EXCEPT !.quit_pending = FALSE], files, key))
    ELSE App_document_key(t, a, files,
            App_handle_key_end(TuiApp_clear_status(t),
                               [a EXCEPT !.quit_pending = FALSE],
                               App_key_arm(TuiApp_active_document(t), a, key)))

\* the offsets in bytes at which a character of s begins, and its end
CharBoundaries(s) == { str_len(SubSeq(s, 1, k)) : k \in 0..Len(s) }

\* the number of characters before the byte offset idx, a character boundary
CharsBefore(s, idx) == CHOOSE k \in 0..Len(s) : str_len(SubSeq(s, 1, k)) = idx

\* String::insert(idx, c) panics when idx is no character boundary
String_insert_panics(s, idx) == idx \notin CharBoundaries(s)

String_insert(s, idx, c) ==
    SubSeq(s, 1, CharsBefore(s, idx)) \o <<c>> \o SubSeq(s, CharsBefore(s, idx) + 1, Len(s))

\* String::remove(idx) panics when idx is no character boundary or is the end
String_remove_panics(s, idx) == idx \notin CharBoundaries(s) \/ idx >= str_len(s)

String_remove(s, idx) ==
    SubSeq(s, 1, CharsBefore(s, idx)) \o SubSeq(s, CharsBefore(s, idx) + 2, Len(s))

\* the character of a key whose code is KeyCode::Char, whatever its
\* modifiers; <<>> for the other keys
KeyTypes(key) ==
    CASE key.code = "Char"   -> <<key.c>>
      [] key.code = "Ctrl+Q" -> <<"q">>
      [] key.code = "Ctrl+S" -> <<"s">>
      [] key.code = "Ctrl+O" -> <<"o">>
      [] key.code = "Ctrl+N" -> <<"n">>
      [] key.code = "Ctrl+W" -> <<"w">>
      [] key.code = "Ctrl+Z" -> <<"z">>
      [] key.code = "Ctrl+Y" -> <<"y">>
      [] OTHER               -> <<>>

RECURSIVE PathBuf_from(_)
\* PathBuf::from(input): the path the input names
PathBuf_from(input) ==
    IF input = <<>> THEN "" ELSE Head(input) \o PathBuf_from(Tail(input))

\* handle_input_mode's Enter arm for Save As, from the result r of doc.save()
\* on the document with its path set
App_input_save_as(t, a, files, r) ==
    Handled(TuiApp_set_status([t EXCEPT !.documents[t.active_doc + 1] = r.doc],
                              IF r.ok THEN StatusSaved ELSE StatusSaveError),
            a, r.files, FALSE, "")

\* handle_input_mode's Enter arm for Open, from the result o of open_file on
App_input_open(t, a, files, o) ==
    Handled(IF o.ok THEN o.tui ELSE TuiApp_set_status(o.tui, StatusOpenError),
            a, files, FALSE, "")

\* handle_input_mode's Enter arm, from the result f of finish_input on
App_input_enter(mode, a, files, f) ==
    IF f.ret = <<>> THEN Handled(f.tui, a, files, FALSE, "")
    ELSE CASE mode = "OpenFile" ->
                App_input_open(f.tui, a, files,
                               App_open_file(f.tui, files, PathBuf_from(f.ret[1])))
           [] mode = "SaveAs" ->
                App_input_save_as(f.tui, a, files,
                    Document_save([TuiApp_active_document(f.tui)
                                      EXCEPT !.path = <<PathBuf_from(f.ret[1])>>], files))
           [] OTHER -> Handled(f.tui, a, files, FALSE, "")

\* handle_input_mode's arms that edit the prompt p: the prompt they leave and
\* whether they panicked
App_input_edit(p, key) ==
    CASE key.code = "Backspace" ->
            IF p.cursor > 0
            THEN IF String_remove_panics(p.buffer, p.cursor - 1)
                 THEN [prompt |-> p, panic |-> TRUE]
                 ELSE [prompt |-> [p EXCEPT !.buffer = String_remove(p.buffer, p.cursor - 1),
                                            !.cursor = p.cursor - 1],
                       panic |-> FALSE]
            ELSE [prompt |-> p, panic |-> FALSE]
      [] key.code = "Delete" ->
            IF p.cursor < str_len(p.buffer)
            THEN IF String_remove_panics(p.buffer, p.cursor)
                 THEN [prompt |-> p, panic |-> TRUE]
                 ELSE [prompt |-> [p EXCEPT !.buffer = String_remove(p.buffer, p.cursor)],
                       panic |-> FALSE]
            ELSE [prompt |-> p, panic |-> FALSE]
      [] key.code = "Left" ->
            [prompt |-> [p EXCEPT !.cursor = IF p.cursor > 0 THEN p.cursor - 1 ELSE p.cursor],
             panic |-> FALSE]
      [] key.code = "Right" ->
            [prompt |-> [p EXCEPT !.cursor = IF p.cursor < str_len(p.buffer)
                                             THEN p.cursor + 1 ELSE p.cursor],
             panic |-> FALSE]
      [] key.code = "Home" -> [prompt |-> [p EXCEPT !.cursor = 0], panic |-> FALSE]
      [] key.code = "End" ->
            [prompt |-> [p EXCEPT !.cursor = str_len(p.buffer)], panic |-> FALSE]
      [] KeyTypes(key) # <<>> ->
            IF String_insert_panics(p.buffer, p.cursor)
            THEN [prompt |-> p, panic |-> TRUE]
            ELSE [prompt |-> [p EXCEPT !.buffer = String_insert(p.buffer, p.cursor,
                                                                 KeyTypes(key)[1]),
                                       !.cursor = p.cursor + 1],
                  panic |-> FALSE]
      [] OTHER -> [prompt |-> p, panic |-> FALSE]

\* handle_input_mode's arms that edit the prompt, from their result e on
App_input_edited(t, a, files, e) ==
    Handled([t EXCEPT !.input_prompt = <<e.prompt>>], a, files, e.panic, "")

\* handle_input_mode
App_handle_input_mode(t, a, files, key) ==
    CASE key.code = "Esc" -> Handled(TuiApp_cancel_input(t), a, files, FALSE, "")
      [] key.code = "Enter" -> App_input_enter(t.input_mode, a, files, TuiApp_finish_input(t))
      [] OTHER ->
            IF t.input_prompt = <<>> THEN Handled(t, a, files, FALSE, "")
            ELSE App_input_edited(t, a, files, App_input_edit(t.input_prompt[1], key))

\* a faulty variant: every key is handled as in normal mode
App_handle_key_one_mode(t, a, files, key) == App_handle_key_normal(t, a, files, key)

\* handle_key
App_handle_key(t, a, files, key) ==
    IF TuiApp_is_input_mode(t) THEN App_handle_input_mode(t, a, files, key)
    ELSE App_handle_key_normal(t, a, files, key)

RECURSIVE App_auto_save_from(_, _, _, _)
\* check_auto_save's loop after the call of save() on the document at the
\* 1-based index i, r the result of the call
App_auto_save_next(docs, files, i, saved, r) ==
    App_auto_save_from([docs EXCEPT ![i] = r.doc], r.files, i + 1,
                       Append(saved, [index |-> i - 1, ok |-> r.ok]))

\* check_auto_save's loop over the documents, from the 1-based index i on;
\* saved lists the calls of save() made: the index of the document and whether
\* the call returned Ok
App_auto_save_from(docs, files, i, saved) ==
    IF i > Len(docs) THEN [documents |-> docs, files |-> files, saved |-> saved]
    ELSE IF Document_is_modified(docs[i]) /\ docs[i].path # <<>>
    THEN App_auto_save_next(docs, files, i, saved, Document_save(docs[i], files))
    ELSE App_auto_save_from(docs, files, i + 1, saved)

\* check_auto_save when due, from the result s of the loop on
App_auto_saved(t, a, s) ==
    [tui |-> [t EXCEPT !.documents = s.documents],
     app |-> [a EXCEPT !.elapsed = 0], files |-> s.files, saved |-> s.saved, err |-> ""]

\* a faulty variant: an interval of 0 does not disable auto-save
App_check_auto_save_always(t, a, files) ==
    IF a.elapsed >= a.config.auto_save
    THEN App_auto_saved(t, a, App_auto_save_from(t.documents, files, 1, <<>>))
    ELSE [tui |-> t, app |-> a, files |-> files, saved |-> <<>>, err |-> ""]

\* check_auto_save; a.elapsed is last_auto_save.elapsed().as_secs()
App_check_auto_save(t, a, files) ==
    IF a.config.auto_save = 0
    THEN [tui |-> t, app |-> a, files |-> files, saved |-> <<>>, err |-> ""]
    ELSE IF a.elapsed >= a.config.auto_save
    THEN App_auto_saved(t, a, App_auto_save_from(t.documents, files, 1, <<>>))
    ELSE [tui |-> t, app |-> a, files |-> files, saved |-> <<>>, err |-> ""]

\* a turn of run()'s loop that check_auto_save ended, s its result
App_run_turn_saved(s) ==
    [tui |-> s.tui, app |-> s.app, files |-> s.files, saved |-> s.saved,
     panic |-> FALSE, err |-> s.err]

\* one turn of run()'s loop from the handling of the key event on, r its
\* result and dt the seconds that went by: a panic and an Err leave the loop,
\* otherwise check_auto_save runs
App_run_turn_end(r, dt) ==
    IF r.panic \/ r.err # ""
    THEN [tui |-> r.tui, app |-> r.app, files |-> r.files, saved |-> <<>>,
          panic |-> r.panic, err |-> r.err]
    ELSE App_run_turn_saved(
            App_check_auto_save(r.tui, [r.app EXCEPT !.elapsed = @ + dt], r.files))

\* one turn of run()'s loop: the terminal height is read, the key event, if
\* one came, is handled, and check_auto_save runs
App_run_turn(t, a, files, h, key, dt) ==
    App_run_turn_end(
        IF key.code = "none"
        THEN Handled(t, [a EXCEPT !.terminal_height = h], files, FALSE, "")
        ELSE App_handle_key(t, [a EXCEPT !.terminal_height = h], files, key),
        dt)

-----------------------------------------------------------------------------
(* SpecHistory: a History object driven through its public methods.        *)

dummy_cursor == Selection_cursor(Position_new(0, 0))

\* the edits recorded: insertions that differ in their position
EditPool == { Edit_insert(p, <<"a">>, dummy_cursor, dummy_cursor) : p \in 0..(NumEdits - 1) }

\* The symmetry tracker follows a run of records from the fresh object, then
\* as many undos, then as many redos; any other call switches it off.
symFresh == [phase |-> "record", pushed |-> <<>>, undos |-> 0, redone |-> <<>>]
symOff   == [phase |-> "off", pushed |-> <<>>, undos |-> 0, redone |-> <<>>]

sym_record(s, e) ==
    IF s.phase = "record" /\ Len(s.pushed) < MaxTracked
    THEN [s EXCEPT !.pushed = Append(s.pushed, e)]
    ELSE symOff

sym_undo(s) ==
    IF s.phase \in {"record", "undo"} /\ s.undos < Len(s.pushed)
    THEN [s EXCEPT !.phase = "undo", !.undos = s.undos + 1]
    ELSE symOff

sym_redo(s, ret) ==
    IF s.phase \in {"undo", "redo"} /\ s.undos = Len(s.pushed)
       /\ Len(s.redone) < Len(s.pushed)
    THEN [s EXCEPT !.phase = "redo", !.redone = Append(s.redone, ret)]
    ELSE symOff

\* the call last made, as the next call files it in hist_prev
LastCall == [op |-> hist_op, ret |-> hist_ret, before |-> hist_before]

InitHistoryPart(h) ==
    /\ history = h
    /\ hist_op = "new"
    /\ hist_arg = <<>>
    /\ hist_ret = <<>>
    /\ hist_before = h
    /\ hist_prev = [op |-> "new", ret |-> <<>>, before |-> h]
    /\ sym = symFresh
    /\ undone = 0

\* history.record(e)
HRecord(e) ==
    \* the model stops recording once the stack is deeper than any with_max_size tried
    /\ Len(history.undo_stack) <= MaxMaxSize
    /\ history' = History_record(history, e)
    /\ hist_op' = "record"
    /\ hist_arg' = <<e>>
    /\ hist_ret' = <<>>
    /\ hist_before' = history
    /\ hist_prev' = LastCall
    /\ sym' = sym_record(sym, e)
    /\ undone' = 0
    /\ UNCHANGED <<bufVars, appVars, docVars, fmVars, selVars>>

\* history.undo()
HUndo ==
    \E r \in {History_undo(history)} :
        /\ history' = r.history
        /\ hist_op' = "undo"
        /\ hist_arg' = <<>>
        /\ hist_ret' = r.ret
        /\ hist_before' = history
        /\ hist_prev' = LastCall
        /\ sym' = sym_undo(sym)
        /\ undone' = IF r.ret # <<>> THEN undone + 1 ELSE undone
        /\ UNCHANGED <<bufVars, appVars, docVars, fmVars, selVars>>

\* history.redo()
HRedo ==
    \E r \in {History_redo(history)} :
        /\ history' = r.history
        /\ hist_op' = "redo"
        /\ hist_arg' = <<>>
        /\ hist_ret' = r.ret
        /\ hist_before' = history
        /\ hist_prev' = LastCall
        /\ sym' = sym_redo(sym, r.ret)
        /\ undone' = IF r.ret # <<>> THEN undone - 1 ELSE undone
        /\ UNCHANGED <<bufVars, appVars, docVars, fmVars, selVars>>

\* history.clear()
HClear ==
    /\ history' = History_clear(history)
    /\ hist_op' = "clear"
    /\ hist_arg' = <<>>
    /\ hist_ret' = <<>>
    /\ hist_before' = history
    /\ hist_prev' = LastCall
    /\ sym' = symOff
    /\ undone' = 0
    /\ UNCHANGED <<bufVars, appVars, docVars, fmVars, selVars>>

-----------------------------------------------------------------------------
(* SpecBuffer: a Buffer object, its mutations and its offset conversions.  *)

\* every text of at most MaxLen characters
Texts == UNION { [1..n -> RopeChars] : n \in 0..MaxLen }

\* lines and columns asked for: every one inside the longest text and one past it
QueryRange == 0..(MaxLen + 1)

NoQuery == [op |-> "none", line |-> 0, col |-> 0, offset |-> 0,
            panic |-> FALSE, pos |-> <<0, 0>>]

\* a call recorded: the method, its arguments, the buffer before it, whether it
\* panicked and what it returned
Call(op, start, end, text, before, panic, ret) ==
    [op |-> op, start |-> start, end |-> end, text |-> text,
     before |-> before, panic |-> panic, ret |-> ret]

NoCall == Call("none", 0, 0, <<>>, Buffer_new, FALSE, <<>>)

\* a conversion was asked of the buffer
QueryCall(op, panic) == Call(op, 0, 0, <<>>, buffer, panic, <<>>)

InitBufferPart(b) ==
    /\ buffer = b
    /\ query = NoQuery
    /\ buf_call = NoCall

\* buffer.insert(char_idx, c); a panic unwinds before the buffer is touched
BInsert(char_idx, c) ==
    LET panics == Buffer_insert_panics(buffer, char_idx)
    IN  /\ panics \/ Len(buffer.text) < MaxLen
        /\ buffer' = IF panics THEN buffer ELSE Buffer_insert(buffer, char_idx, <<c>>)
        /\ buf_call' = Call("insert", char_idx, char_idx, <<c>>, buffer, panics, <<>>)
        /\ query' = NoQuery
        /\ UNCHANGED <<histVars, appVars, docVars, fmVars, selVars>>

\* buffer.delete(start, end)
BDelete(start, end) ==
    LET panics == Buffer_delete_panics(buffer, start, end)
    IN  /\ buffer' = IF panics THEN buffer ELSE Buffer_delete(buffer, start, end)
        /\ buf_call' = Call("delete", start, end, <<>>, buffer, panics, <<>>)
        /\ query' = NoQuery
        /\ UNCHANGED <<histVars, appVars, docVars, fmVars, selVars>>

\* buffer.replace(start, end, c)
BReplace(start, end, c) ==
    LET panics == Buffer_replace_panics(buffer, start, end)
    IN  /\ panics \/ Len(buffer.text) - (end - start) < MaxLen
        /\ buffer' = IF panics THEN buffer ELSE Buffer_replace(buffer, start, end, <<c>>)
        /\ buf_call' = Call("replace", start, end, <<c>>, buffer, panics, <<>>)
        /\ query' = NoQuery
        /\ UNCHANGED <<histVars, appVars, docVars, fmVars, selVars>>

BMarkSaved ==
    /\ buffer' = Buffer_mark_saved(buffer)
    /\ buf_call' = Call("mark_saved", 0, 0, <<>>, buffer, FALSE, <<>>)
    /\ query' = NoQuery
    /\ UNCHANGED <<histVars, appVars, docVars, fmVars, selVars>>

\* buffer.line(line_idx)
BLine(line_idx) ==
    /\ buf_call' = Call("line", line_idx, line_idx, <<>>, buffer, FALSE,
                        Buffer_line(buffer, line_idx))
    /\ query' = NoQuery
    /\ UNCHANGED <<buffer, histVars, appVars, docVars, fmVars, selVars>>

\* buffer.text(), buffer.len_lines(), buffer.len_chars(), buffer.is_modified()
BText ==
    /\ buf_call' = Call("text", 0, 0, <<>>, buffer, FALSE, <<Buffer_text(buffer)>>)
    /\ query' = NoQuery
    /\ UNCHANGED <<buffer, histVars, appVars, docVars, fmVars, selVars>>

\* buffer.slice(start, end)
BSlice(start, end) ==
    LET panics == Buffer_slice_panics(buffer, start, end)
    IN  /\ buf_call' = Call("slice", start, end, <<>>, buffer, panics,
                            IF panics THEN <<>> ELSE <<Buffer_slice(buffer, start, end)>>)
        /\ query' = NoQuery
        /\ UNCHANGED <<buffer, histVars, appVars, docVars, fmVars, selVars>>

\* buffer.line_col_to_char(line, col)
BLineColToChar(line, col) ==
    LET panics == Buffer_line_col_to_char_panics(buffer, line)
    IN  /\ query' = [op |-> "line_col_to_char", line |-> line, col |-> col,
                     offset |-> IF panics THEN 0
                                ELSE Buffer_line_col_to_char(buffer, line, col),
                     panic |-> panics, pos |-> <<0, 0>>]
        /\ buf_call' = QueryCall("line_col_to_char", panics)
        /\ UNCHANGED <<buffer, histVars, appVars, docVars, fmVars, selVars>>

\* buffer.char_to_line_col(char_idx)
BCharToLineCol(char_idx) ==
    LET panics == Buffer_char_to_line_col_panics(buffer, char_idx)
    IN  /\ query' = [op |-> "char_to_line_col", line |-> 0, col |-> 0,
                     offset |-> char_idx, panic |-> panics,
                     pos |-> IF panics THEN <<0, 0>>
                             ELSE Buffer_char_to_line_col(buffer, char_idx)]
        /\ buf_call' = QueryCall("char_to_line_col", panics)
        /\ UNCHANGED <<buffer, histVars, appVars, docVars, fmVars, selVars>>

\* buffer.char_to_line_col(buffer.line_col_to_char(line, col))
BRoundTrip(line, col) ==
    LET panics == Buffer_line_col_to_char_panics(buffer, line)
        offset == Buffer_line_col_to_char(buffer, line, col)
    IN  /\ query' = [op |-> "round_trip", line |-> line, col |-> col,
                     offset |-> IF panics THEN 0 ELSE offset,
                     panic |-> panics,
                     pos |-> IF panics THEN <<0, 0>>
                             ELSE Buffer_char_to_line_col(buffer, offset)]
        /\ buf_call' = QueryCall("round_trip", panics)
        /\ UNCHANGED <<buffer, histVars, appVars, docVars, fmVars, selVars>>

-----------------------------------------------------------------------------
(* SpecApp: key events handled by the controller, two documents open.      *)

\* the terminal height: two visible lines
TermHeights == {5}

\* every text a document is loaded with
DocTexts == UNION { [1..n -> Chars] : n \in 0..MaxDocLen }

\* the characters typed with a Char key (Enter types the line break)
TypedChars == {"a", WideChar}

ActiveDoc == TuiApp_active_document(tui)

Snapshot(doc) == [text |-> doc.buffer.text, cursor |-> doc.cursor]

NoRun == [edits |-> 0, undos |-> 0, base |-> Snapshot(Document_new)]

\* the undo tracker: recorded edits extend the run until an undo is made,
\* successful undos are counted up to the number of edits, and any other key
\* ends the run
run_after(r, before, after, key) ==
    LET recorded == after.history.undo_stack # before.history.undo_stack
                    /\ key.code \in {"Char", "Enter", "Backspace", "Delete"}
    IN  CASE recorded /\ r.undos = 0 /\ r.edits > 0 /\ r.edits < MaxRun
                -> [r EXCEPT !.edits = r.edits + 1]
          [] recorded /\ ~(r.undos = 0 /\ r.edits > 0 /\ r.edits < MaxRun)
                -> [edits |-> 1, undos |-> 0, base |-> Snapshot(before)]
          [] key.code = "Ctrl+Z" /\ before.history.undo_stack # <<>> /\ r.undos < r.edits
                -> [r EXCEPT !.undos = r.undos + 1]
          [] key.code = "Ctrl+Z" /\ ~(before.history.undo_stack # <<>> /\ r.undos < r.edits)
                -> NoRun
          [] key.code = "Ctrl+Y" -> NoRun
          [] OTHER -> NoRun

\* the length of a line in characters, without its line break
LineChars(text, line) == Len(trim_end_newlines(rope_line(text, line)))

NotTyping == [on |-> FALSE, start |-> Snapshot(Document_new), chars |-> <<>>]

\* the typing tracker: a Char key pressed with the cursor at the end of its
\* line starts a run, further Char keys extend it, any other key ends it
typed_after(ty, before, key) ==
    CASE key.code = "Char" /\ ty.on -> [ty EXCEPT !.chars = Append(ty.chars, key.c)]
      [] key.code = "Char" /\ ~ty.on
         /\ before.cursor[1] < len_lines(before.buffer.text)
         /\ before.cursor[2] = LineChars(before.buffer.text, before.cursor[1])
            -> [on |-> TRUE, start |-> Snapshot(before), chars |-> <<key.c>>]
      [] OTHER -> NotTyping

\* config.rs: the editor's defaults
DefaultConfig == [use_spaces |-> TRUE, tab_size |-> 4, auto_save |-> 0]

\* the Tab settings tried: the widest run of spaces that fits a document of the
\* model, and the tab character
Configs ==
    { [use_spaces |-> TRUE, tab_size |-> 2, auto_save |-> 0],
      [use_spaces |-> FALSE, tab_size |-> 4, auto_save |-> 0] }

\* the document in the other tab of SpecApp: one with text, a moved cursor and
\* an edit in its history
OtherDoc ==
    App_insert_char(Document_from_content(<<"a", NL>>), "a").doc

\* what the claims about undo then redo and about Backspace compare
Counted(doc) ==
    [text |-> doc.buffer.text, cursor |-> doc.cursor,
     undo_count |-> History_undo_count(doc.history),
     redo_count |-> History_redo_count(doc.history)]

NotFollowed == [kind |-> "none", before |-> Counted(Document_new),
                after |-> Counted(Document_new)]

NavigationKeys == {"Up", "Down", "Left", "Right", "Home", "End", "PageUp", "PageDown"}

\* the tracker of the last recorded edit: before and after are the document
\* before and after the key that made it.  kind is "joined" right after a
\* Backspace pressed with the cursor at column 0 of a line after the first,
\* "edited" after another edit and while only navigation keys follow,
\* "undone" when Ctrl+Z is pressed then, "redone" when Ctrl+Y follows at once;
\* any other key, and a panic, ends the tracking
followed_after(f, before, after, key, panic) ==
    CASE panic /\ ~(key.code = "Ctrl+Y" /\ f.kind = "undone") -> NotFollowed
      [] ~panic /\ key.code = "Backspace"
         /\ before.cursor[2] = 0 /\ before.cursor[1] > 0
         /\ before.cursor[1] < len_lines(before.buffer.text)
            -> [kind |-> "joined", before |-> Counted(before), after |-> Counted(after)]
      [] ~panic /\ key.code \in {"Char", "Enter", "Tab", "Backspace", "Delete"}
         /\ ~(key.code = "Backspace" /\ before.cursor[2] = 0 /\ before.cursor[1] > 0
              /\ before.cursor[1] < len_lines(before.buffer.text))
         /\ after.history.undo_stack # before.history.undo_stack
            -> [kind |-> "edited", before |-> Counted(before), after |-> Counted(after)]
      [] ~panic /\ key.code \in NavigationKeys /\ f.kind \in {"edited", "joined"}
            -> [f EXCEPT !.kind = "edited"]
      [] ~panic /\ key.code = "Ctrl+Z" /\ f.kind \in {"edited", "joined"}
            -> [f EXCEPT !.kind = "undone"]
      [] key.code = "Ctrl+Y" /\ f.kind = "undone"
            -> [f EXCEPT !.kind = "redone"]
      [] OTHER -> NotFollowed

\* no turn of the event loop yet
NoEvent == [quit_key |-> FALSE, saved |-> <<>>]

NoTuiCall == [op |-> "none", before |-> TuiApp_new, ret |-> <<>>]

InitAppDocs(docs, active, h, config) ==
    /\ tui = [TuiApp_new EXCEPT !.documents = docs, !.active_doc = active]
    /\ app = [quit_pending |-> FALSE, terminal_height |-> h, config |-> config,
              elapsed |-> 0]
    /\ panicked = FALSE
    /\ run = NoRun
    /\ typed = NotTyping
    /\ followed = NotFollowed
    /\ failed = <<>>
    /\ event = NoEvent
    /\ tui_call = NoTuiCall

InitAppPart(doc, h) == InitAppDocs(<<doc>>, 0, h, DefaultConfig)

\* one key event, read and handled by the event loop
HandleKey(key) ==
    \E r \in {App_handle_key(tui, app, fs, key)} :
        /\ tui' = r.tui
        /\ app' = r.app
        /\ fs' = r.files
        /\ panicked' = r.panic
        /\ run' = run_after(run, ActiveDoc, TuiApp_active_document(r.tui), key)
        /\ typed' = IF r.panic THEN NotTyping ELSE typed_after(typed, ActiveDoc, key)
        /\ followed' = followed_after(followed, ActiveDoc, TuiApp_active_document(r.tui),
                                       key, r.panic)
        /\ UNCHANGED <<failed, event, tui_call>>
        /\ UNCHANGED <<document, doc_call, html_seen>>
        /\ UNCHANGED <<histVars, bufVars, fmVars, selVars>>

\* the event loop runs until the process panics
Running == ~panicked

\* the model types only while the buffer is shorter than MaxDocLen, and
\* records only while the undo stack is shallower than MaxHist
CanGrow == Len(ActiveDoc.buffer.text) < MaxDocLen
CanRecord == Len(ActiveDoc.history.undo_stack) < MaxHist
\* a Tab types tab_size spaces, or one tab character
TabWidth == IF app.config.use_spaces THEN app.config.tab_size ELSE 1
CanTab ==
    /\ Len(ActiveDoc.buffer.text) + TabWidth <= MaxDocLen
    /\ Len(ActiveDoc.history.undo_stack) + TabWidth <= MaxHist

KeyChar(c)   == Running /\ CanGrow /\ CanRecord /\ HandleKey(KeyOfChar(c))
KeyEnter     == Running /\ CanGrow /\ CanRecord /\ HandleKey(Key("Enter"))
KeyBackspace == Running /\ CanRecord /\ HandleKey(Key("Backspace"))
KeyDelete    == Running /\ CanRecord /\ HandleKey(Key("Delete"))
KeyUndo      == Running /\ HandleKey(Key("Ctrl+Z"))
KeyRedo      == Running /\ HandleKey(Key("Ctrl+Y"))
KeyUp        == Running /\ HandleKey(Key("Up"))
KeyDown      == Running /\ HandleKey(Key("Down"))
KeyLeft      == Running /\ HandleKey(Key("Left"))
KeyRight     == Running /\ HandleKey(Key("Right"))
KeyHome      == Running /\ HandleKey(Key("Home"))
KeyEnd       == Running /\ HandleKey(Key("End"))
KeyPageUp    == Running /\ HandleKey(Key("PageUp"))
KeyPageDown  == Running /\ HandleKey(Key("PageDown"))
KeyTab       == Running /\ CanTab /\ HandleKey(Key("Tab"))

-----------------------------------------------------------------------------
(* SpecDocHtml and SpecDocFile: a Document object, its rendering cache,    *)
(* the mutations made directly on its buffer, and its loading and saving.  *)

\* the characters put into the buffer of a document
DocTyped == {"a", NL}

\* the bodies a document is loaded with: every text of DocTyped of at most
\* MaxBodyLen characters
Bodies == UNION { [1..n -> DocTyped] : n \in 0..MaxBodyLen }

YamlBlock == Dashes \o <<NL, "a", ":", " ", "t", NL>> \o Dashes
TomlBlock == Pluses \o <<NL, "a", " ", "=", " ", "\"", "t", "\"", NL>> \o Pluses
\* a delimited block that is no YAML mapping: the content has no frontmatter
ScalarBlock == Dashes \o <<NL, "a", NL>> \o Dashes

\* blocks with a title: "title: t" and title = "t"
YamlTitleBlock == Dashes \o <<NL>> \o TitleKey \o <<":", " ", "t", NL>> \o Dashes
TomlTitleBlock ==
    Pluses \o <<NL>> \o TitleKey \o <<" ", "=", " ", "\"", "t", "\"", NL>> \o Pluses
TitleContents == { b \o <<NL, "a">> : b \in {YamlTitleBlock, TomlTitleBlock} }

\* the contents with a frontmatter block: the block, a line feed, a body
BlockContents == { b \o <<NL>> \o t : b \in {YamlBlock, TomlBlock}, t \in Bodies }

\* the contents from_content is given where the rendering is asked for
HtmlContents == Bodies \cup BlockContents

\* the contents of the files there are to load
FileContents == Bodies \cup BlockContents \cup TitleContents \cup {ScalarBlock \o <<NL, "a">>}

NoFiles == [p \in Paths |-> <<>>]

\* ret: what html() last returned; invalidated: invalidate_cache() was called
\* since; text: the buffer text at the last html() that was the first one or
\* followed an invalidate_cache(); mutated: the buffer was mutated since then
NoSeen == [ret |-> <<>>, invalidated |-> FALSE, text |-> <<>>, mutated |-> FALSE]

\* html_seen after an html() that returned ret
SeenHtml(seen, text, ret) ==
    IF seen.ret = <<>> \/ seen.invalidated
    THEN [ret |-> <<ret>>, invalidated |-> FALSE, text |-> text, mutated |-> FALSE]
    ELSE [seen EXCEPT !.ret = <<ret>>]

NoDocCall == [op |-> "none", path |-> "", before |-> Document_new, fs_before |-> NoFiles,
              ok |-> TRUE, ret |-> <<>>, seen |-> NoSeen]

InitDocPart(d, files) ==
    /\ document = d
    /\ fs = files
    /\ doc_call = NoDocCall
    /\ html_seen = NoSeen

\* a call on the document: what it leaves and what is recorded of it
DocStep(op, path, d, files, ok, ret, seen) ==
    /\ document' = d
    /\ fs' = files
    /\ doc_call' = [op |-> op, path |-> path, before |-> document, fs_before |-> fs,
                    ok |-> ok, ret |-> ret, seen |-> html_seen]
    /\ html_seen' = seen
    /\ UNCHANGED <<histVars, bufVars, appVars, fmVars, selVars>>

Mutated == [html_seen EXCEPT !.mutated = TRUE]

\* doc.html()
DHtml ==
    \E r \in {Document_html(document)} :
        DocStep("html", "", r.doc, fs, TRUE, <<r.ret>>,
                SeenHtml(html_seen, document.buffer.text, r.ret))

\* doc.invalidate_cache()
DInvalidateCache ==
    \E d \in {Document_invalidate_cache(document)} :
        DocStep("invalidate_cache", "", d, fs, TRUE, <<>>,
                [html_seen EXCEPT !.invalidated = TRUE])

\* doc.buffer.insert(char_idx, c)
DBufferInsert(char_idx, c) ==
    /\ ~Buffer_insert_panics(document.buffer, char_idx)
    /\ Len(document.buffer.text) < MaxBodyLen
    /\ DocStep("insert", "", [document EXCEPT !.buffer = Buffer_insert(@, char_idx, <<c>>)],
               fs, TRUE, <<>>, Mutated)

\* doc.buffer.delete(start, end)
DBufferDelete(start, end) ==
    /\ ~Buffer_delete_panics(document.buffer, start, end)
    /\ DocStep("delete", "", [document EXCEPT !.buffer = Buffer_delete(@, start, end)],
               fs, TRUE, <<>>, Mutated)

\* doc.buffer.replace(start, end, c)
DBufferReplace(start, end, c) ==
    /\ ~Buffer_replace_panics(document.buffer, start, end)
    /\ Len(document.buffer.text) - (end - start) < MaxBodyLen
    /\ DocStep("replace", "",
               [document EXCEPT !.buffer = Buffer_replace(@, start, end, <<c>>)],
               fs, TRUE, <<>>, Mutated)

\* doc.save()
DSave ==
    \E r \in {Document_save(document, fs)} :
        DocStep("save", "", r.doc, r.files, r.ok, <<r.err>>, html_seen)

\* doc.save_as(path)
DSaveAs(path) ==
    \E r \in {Document_save_as(document, fs, path)} :
        DocStep("save_as", path, r.doc, r.files, r.ok, <<r.err>>, html_seen)

\* doc.path = Some(path)
DSetPath(path) ==
    \E d \in {[document EXCEPT !.path = <<path>>]} :
        DocStep("set_path", path, d, fs, TRUE, <<>>, html_seen)

\* doc.title()
DTitle ==
    \E t \in {Document_title(document)} :
        DocStep("title", "", document, fs, TRUE, <<t>>, html_seen)

\* doc = Document::from_file(path)?
DFromFile(path) ==
    \E r \in {Document_from_file(fs, path)} :
        DocStep("from_file", path, IF r = <<>> THEN document ELSE r[1], fs, r # <<>>,
                <<>>, IF r = <<>> THEN html_seen ELSE NoSeen)

-----------------------------------------------------------------------------
(* SpecFrontmatter: Frontmatter::extract applied to contents put together   *)
(* from a lead, an opening delimiter, a payload, a closing line and a tail, *)
(* and to delimited(m) + "\n" + b for valid payloads m.                     *)

Leads == {<<>>, <<NL>>, <<" ", NL>>}

\* payloads that are YAML mappings
ValidYaml ==
    { <<"a", ":", " ", "t">>,
      <<"a", ":">>,
      <<"a", ":", " ", "t", NL>>,
      <<"a", ":", " ", "t", " ">>,
      <<NL, "a", ":", " ", "t">>,
      <<"a", ":", " ", "t", NL, "t", ":", " ", "a">>,
      <<"a", ":", NL, NL, "t", ":", " ", WideChar>> }

\* payloads that are TOML tables
ValidToml ==
    { <<>>,
      <<"a", " ", "=", " ", "\"", "t", "\"">>,
      <<"a", " ", "=", " ", "\"", "t", "\"", NL>>,
      <<NL, "a", "=", "\"", "t", "\"">>,
      <<"a", "=", "\"", "t", "\"", NL, "t", "=", "\"", WideChar, "\"">> }

ValidPayloads(format) == IF format = "Yaml" THEN ValidYaml ELSE ValidToml

\* the payloads of the contents handed to extract: a mapping and a table, and
\* texts that are no mapping in either syntax (nothing, a scalar, a sequence, a
\* TOML value without quotes)
ExtractPayloads ==
    { <<"a", ":", " ", "t">>,
      <<"a", " ", "=", " ", "\"", "t", "\"">>,
      <<>>,
      <<"a">>,
      <<"-", " ", "a">>,
      <<"a", " ", "=", " ", "t">> }

\* the bodies put after a block
FmBodies == { <<>>, <<"a">>, <<NL, "a">>, <<NL, NL, "a">>, <<" ", "a">>, <<"a", NL>> }

\* what follows the payload: a closing delimiter line, with a body after it or
\* not, or a line that only begins with the delimiter
Closings(delim) ==
    { <<NL>> \o delim,
      <<NL>> \o delim \o <<NL, "a">>,
      <<NL>> \o delim \o <<NL, NL, "a">>,
      <<NL>> \o delim \o <<"a">>,
      <<NL>> \o delim \o <<"-">>,
      <<NL>> \o delim \o <<"a", NL>> \o delim }

\* what follows it when there is no closing line at all
NoClosings == { <<>>, <<NL, "a">>, <<NL, "-", "-">> }

\* contents that open with a delimiter
OpenedContents ==
    { l \o dl \o <<NL>> \o m \o c :
        l \in Leads, dl \in {Dashes, Pluses}, m \in ExtractPayloads,
        c \in Closings(Dashes) \cup Closings(Pluses) \cup NoClosings }
        \cup { l \o dl \o c : l \in Leads, dl \in {Dashes, Pluses},
                               c \in Closings(Dashes) \cup Closings(Pluses) \cup NoClosings }

\* contents that do not open with a delimiter
PlainContents ==
    { l \o t : l \in Leads,
               t \in { <<>>, <<"a">>, <<"a", NL, "a">>, <<"-", "-">>, <<"a", " ">>,
                       <<"a", NL>> \o Dashes \o <<NL, "a", ":", " ", "t", NL>> \o Dashes,
                       <<"a">> \o Pluses \o <<NL>> \o Pluses } }

\* the delimiter-wrapped block of a payload
delimited(format, m) ==
    IF format = "Yaml" THEN Dashes \o <<NL>> \o m \o <<NL>> \o Dashes
    ELSE Pluses \o <<NL>> \o m \o <<NL>> \o Pluses

NoFmCall == [op |-> "none", format |-> "", payload |-> <<>>, body |-> <<>>,
             content |-> <<>>, ret |-> [frontmatter |-> <<>>, body |-> <<>>]]

InitFmPart == fm_call = NoFmCall

\* extract(content)
FExtract(content) ==
    /\ fm_call' = [op |-> "extract", format |-> "", payload |-> <<>>, body |-> <<>>,
                   content |-> content, ret |-> Frontmatter_extract(content)]
    /\ UNCHANGED <<histVars, bufVars, appVars, docVars, selVars>>

\* extract(delimited(m) + "\n" + b)
FRoundTrip(format, m, b) ==
    /\ fm_call' = [op |-> "round_trip", format |-> format, payload |-> m, body |-> b,
                   content |-> delimited(format, m) \o <<NL>> \o b,
                   ret |-> Frontmatter_extract(delimited(format, m) \o <<NL>> \o b)]
    /\ UNCHANGED <<histVars, bufVars, appVars, docVars, selVars>>

-----------------------------------------------------------------------------
(* SpecSelection: a Selection made by Selection::new and moved by           *)
(* move_lines and move_cols, over the whole range of usize and isize.       *)

Usize == 0..UsizeMax
Isize == IsizeMin..IsizeMax
Positions == { Position_new(l, c) : l \in Usize, c \in Usize }

NoSelCall == [op |-> "new", delta |-> 0, extend |-> FALSE,
              before |-> Selection_cursor(Position_new(0, 0))]

InitSelPart(sel) ==
    /\ selection = sel
    /\ sel_call = NoSelCall

SMoveLines(delta, extend) ==
    /\ selection' = Selection_move_lines(selection, delta, extend)
    /\ sel_call' = [op |-> "move_lines", delta |-> delta, extend |-> extend,
                    before |-> selection]
    /\ UNCHANGED <<histVars, bufVars, appVars, docVars, fmVars>>

SMoveCols(delta, extend) ==
    /\ selection' = Selection_move_cols(selection, delta, extend)
    /\ sel_call' = [op |-> "move_cols", delta |-> delta, extend |-> extend,
                    before |-> selection]
    /\ UNCHANGED <<histVars, bufVars, appVars, docVars, fmVars>>

-----------------------------------------------------------------------------
(* SpecTui: the TUI state made by App::new and driven through its public   *)
(* methods, with the prompt's buffer typed into as the controller does.    *)

\* at most MaxTabs documents are open
MaxTabs == 3
\* at most MaxPromptLen characters are typed into a prompt
MaxPromptLen == 2

\* the documents opened: an empty one, and one with text and an edit
TabDocs == {Document_new, OtherDoc}

\* a call on the TUI state: what it leaves and what is recorded of it
TuiStep(op, t, ret) ==
    /\ tui' = t
    /\ tui_call' = [op |-> op, before |-> tui, ret |-> ret]
    /\ UNCHANGED <<app, panicked, run, typed, followed, failed, event>>
    /\ UNCHANGED <<histVars, bufVars, docVars, fmVars, selVars>>

TOpenDocument(doc) ==
    /\ Len(tui.documents) < MaxTabs
    /\ TuiStep("open_document", TuiApp_open_document(tui, doc), <<>>)

TCloseActiveDocument ==
    TuiStep("close_active_document", TuiApp_close_active_document(tui), <<>>)

TNextDocument == TuiStep("next_document", TuiApp_next_document(tui), <<>>)

TPrevDocument == TuiStep("prev_document", TuiApp_prev_document(tui), <<>>)

TStartOpenPrompt == TuiStep("start_open_prompt", TuiApp_start_open_prompt(tui), <<>>)

TStartSaveAsPrompt ==
    TuiStep("start_save_as_prompt", TuiApp_start_save_as_prompt(tui), <<>>)

TCancelInput == TuiStep("cancel_input", TuiApp_cancel_input(tui), <<>>)

TFinishInput ==
    \E r \in {TuiApp_finish_input(tui)} : TuiStep("finish_input", r.tui, r.ret)

\* prompt.buffer.insert(prompt.cursor, c); prompt.cursor += 1, with the
\* cursor at the end of the buffer
TType(c) ==
    /\ tui.input_prompt # <<>>
    /\ Len(tui.input_prompt[1].buffer) < MaxPromptLen
    /\ TuiStep("type",
               [tui EXCEPT !.input_prompt[1].buffer = Append(@, c),
                           !.input_prompt[1].cursor = @ + 1],
               <<>>)

-----------------------------------------------------------------------------
(* SpecSession: the event loop of run(), turn by turn, after main() has    *)
(* opened an empty document or a file: the command keys, the prompts, the  *)
(* tabs, resizes of the terminal and auto-save.                            *)

\* at most MaxSessionTabs documents are open
MaxSessionTabs == 2
\* a document's text has at most MaxSessionLen characters
MaxSessionLen == 1
\* a path typed into a prompt has at most MaxPathLen characters
MaxPathLen == 1
\* the auto-save interval, when auto-save is enabled
AutoSaveSecs == 1

\* the terminal heights: no visible line, and two
SessionHeights == {3, 5}

\* the characters typed into a prompt, and the paths they spell
PromptChars == {"p"}
SessionPaths ==
    { PathBuf_from(i) : i \in UNION { [1..n -> PromptChars] : n \in 0..MaxPathLen } }

\* the files at the start: a file "p" of two lines
SessionFiles == [p \in SessionPaths |-> IF p = "p" THEN <<<<NL>>>> ELSE <<>>]

\* no key event came in the turn
NoKey == Key("none")

InPrompt == TuiApp_is_input_mode(tui)

\* the loop runs until the process panics, run() returns an error, or quits
Looping == ~panicked /\ failed = <<>> /\ ~tui.should_quit

\* the seconds that may go by in a turn; the model lets none go by when
\* auto-save is disabled, where the clock is never read
Elapses == IF app.config.auto_save = 0 THEN {0} ELSE {0, 1}

\* event after a turn with the key: quit_key tells that the last key event
\* was a Ctrl+Q pressed in normal mode while a document had unsaved changes,
\* saved lists the calls of save() that check_auto_save made in the turn
event_after(key, saved) ==
    [quit_key |-> IF key.code = "none" THEN event.quit_key
                  ELSE ~InPrompt /\ key.code = "Ctrl+Q" /\ TuiApp_has_unsaved_changes(tui),
     saved |-> saved]

\* one turn of the event loop
Turn(key) ==
    /\ Looping
    /\ \E h \in SessionHeights, dt \in Elapses :
          \E r \in {App_run_turn(tui, app, fs, h, key, dt)} :
              /\ tui' = r.tui
              /\ app' = r.app
              /\ fs' = r.files
              /\ panicked' = r.panic
              /\ failed' = IF r.err = "" THEN <<>> ELSE <<r.err>>
              /\ event' = event_after(key, r.saved)
    /\ UNCHANGED <<run, typed, followed, tui_call, document, doc_call, html_seen>>
    /\ UNCHANGED <<histVars, bufVars, fmVars, selVars>>

CanOpen == Len(tui.documents) < MaxSessionTabs
CanType == Len(ActiveDoc.buffer.text) < MaxSessionLen

SIdle        == Turn(NoKey)
SQuit        == ~InPrompt /\ Turn(Key("Ctrl+Q"))
SSave        == ~InPrompt /\ Turn(Key("Ctrl+S"))
SOpen        == ~InPrompt /\ Turn(Key("Ctrl+O"))
SNew         == ~InPrompt /\ CanOpen /\ Turn(Key("Ctrl+N"))
SClose       == ~InPrompt /\ Turn(Key("Ctrl+W"))
SNextTab     == ~InPrompt /\ Turn(Key("Ctrl+Tab"))
SPrevTab     == ~InPrompt /\ Turn(Key("Ctrl+BackTab"))
SEnter       == ~InPrompt /\ CanType /\ Turn(Key("Enter"))
SUndo        == ~InPrompt /\ Turn(Key("Ctrl+Z"))
SUp          == ~InPrompt /\ Turn(Key("Up"))
SDown        == ~InPrompt /\ Turn(Key("Down"))
SPageUp      == ~InPrompt /\ Turn(Key("PageUp"))
SPageDown    == ~InPrompt /\ Turn(Key("PageDown"))
SPromptChar(c) ==
    /\ InPrompt
    /\ Len(tui.input_prompt[1].buffer) < MaxPathLen
    /\ Turn(KeyOfChar(c))
SPromptEnter ==
    /\ InPrompt
    /\ tui.input_mode = "OpenFile" => CanOpen
    /\ Turn(Key("Enter"))
SPromptEsc       == InPrompt /\ Turn(Key("Esc"))
SPromptBackspace == InPrompt /\ Turn(Key("Backspace"))
SPromptDelete    == InPrompt /\ Turn(Key("Delete"))
SPromptLeft      == InPrompt /\ Turn(Key("Left"))
SPromptRight     == InPrompt /\ Turn(Key("Right"))
SPromptHome      == InPrompt /\ Turn(Key("Home"))
SPromptEnd       == InPrompt /\ Turn(Key("End"))

-----------------------------------------------------------------------------
(* The specifications *)

InitHistory ==
    /\ InitFmPart
    /\ InitSelPart(Selection_cursor(Position_new(0, 0)))
    /\ \E h \in {History_new, History_default}
                \cup { History_with_max_size(m) : m \in 0..MaxMaxSize } :
          InitHistoryPart(h)
    /\ InitBufferPart(Buffer_new)
    /\ InitAppPart(Document_new, 5)
    /\ InitDocPart(Document_new, NoFiles)

NextHistory ==
    \/ \E e \in EditPool : HRecord(e)
    \/ HUndo
    \/ HRedo
    \/ HClear

SpecHistory == InitHistory /\ [][NextHistory]_vars

\* the ends tried for a range that starts at i: every end from i on, and the
\* one before i, a range with start > end
EndsFrom(i) == { j \in QueryRange : j + 1 >= i }

InitBuffer ==
    /\ InitFmPart
    /\ InitSelPart(Selection_cursor(Position_new(0, 0)))
    /\ InitHistoryPart(History_new)
    /\ \E t \in Texts : InitBufferPart(Buffer_from_str(t))
    /\ InitAppPart(Document_new, 5)
    /\ InitDocPart(Document_new, NoFiles)

NextBuffer ==
    \/ \E i \in QueryRange, c \in RopeChars : BInsert(i, c)
    \/ \E i \in QueryRange : \E j \in EndsFrom(i) : BDelete(i, j)
    \/ \E i \in QueryRange : \E j \in EndsFrom(i), c \in {"a", NL} : BReplace(i, j, c)
    \/ BMarkSaved
    \/ \E l \in QueryRange : BLine(l)
    \/ BText
    \/ \E i \in QueryRange : \E j \in EndsFrom(i) : BSlice(i, j)
    \/ \E l \in QueryRange, c \in QueryRange : BLineColToChar(l, c)
    \/ \E i \in QueryRange : BCharToLineCol(i)
    \/ \E l \in QueryRange, c \in QueryRange : BRoundTrip(l, c)

SpecBuffer == InitBuffer /\ [][NextBuffer]_vars

InitApp ==
    /\ InitFmPart
    /\ InitSelPart(Selection_cursor(Position_new(0, 0)))
    /\ InitHistoryPart(History_new)
    /\ InitBufferPart(Buffer_new)
    /\ \E t \in DocTexts, h \in TermHeights, active \in {0, 1}, config \in Configs :
          InitAppDocs(IF active = 0 THEN <<Document_from_content(t), OtherDoc>>
                      ELSE <<OtherDoc, Document_from_content(t)>>,
                      active, h, config)
    /\ InitDocPart(Document_new, NoFiles)

NextApp ==
    \/ \E c \in TypedChars : KeyChar(c)
    \/ KeyEnter
    \/ KeyBackspace
    \/ KeyDelete
    \/ KeyUndo
    \/ KeyRedo
    \/ KeyUp
    \/ KeyDown
    \/ KeyLeft
    \/ KeyRight
    \/ KeyHome
    \/ KeyEnd
    \/ KeyPageUp
    \/ KeyPageDown
    \/ KeyTab

SpecApp == InitApp /\ [][NextApp]_vars

InitDocHtml ==
    /\ InitFmPart
    /\ InitSelPart(Selection_cursor(Position_new(0, 0)))
    /\ InitHistoryPart(History_new)
    /\ InitBufferPart(Buffer_new)
    /\ InitAppPart(Document_new, 5)
    /\ \E d \in {Document_new} \cup { Document_from_content(c) : c \in HtmlContents } :
          InitDocPart(d, NoFiles)

NextDocHtml ==
    \/ DHtml
    \/ DInvalidateCache
    \/ \E i \in 0..MaxBodyLen, c \in DocTyped : DBufferInsert(i, c)
    \/ \E i \in 0..MaxBodyLen, j \in 0..MaxBodyLen : DBufferDelete(i, j)
    \/ \E i \in 0..MaxBodyLen, j \in 0..MaxBodyLen, c \in DocTyped : DBufferReplace(i, j, c)

SpecDocHtml == InitDocHtml /\ [][NextDocHtml]_vars

InitDocFile ==
    /\ InitFmPart
    /\ InitSelPart(Selection_cursor(Position_new(0, 0)))
    /\ InitHistoryPart(History_new)
    /\ InitBufferPart(Buffer_new)
    /\ InitAppPart(Document_new, 5)
    /\ \E d \in {Document_new} \cup { Document_from_content(c) : c \in FileContents },
          f \in {<<>>} \cup { <<c>> : c \in FileContents } :
          InitDocPart(d, [NoFiles EXCEPT !["p.md"] = f])

NextDocFile ==
    \/ DSave
    \/ \E p \in Paths : DSaveAs(p)
    \/ \E p \in Paths : DSetPath(p)
    \/ \E p \in Paths : DFromFile(p)
    \/ DTitle
    \/ \E i \in 0..MaxBodyLen, c \in DocTyped : DBufferInsert(i, c)

SpecDocFile == InitDocFile /\ [][NextDocFile]_vars

InitFrontmatter ==
    /\ InitFmPart
    /\ InitSelPart(Selection_cursor(Position_new(0, 0)))
    /\ InitHistoryPart(History_new)
    /\ InitBufferPart(Buffer_new)
    /\ InitAppPart(Document_new, 5)
    /\ InitDocPart(Document_new, NoFiles)

NextFrontmatter ==
    \/ \E c \in OpenedContents \cup PlainContents : FExtract(c)
    \/ \E format \in {"Yaml", "Toml"} :
          \E m \in ValidPayloads(format), b \in FmBodies : FRoundTrip(format, m, b)

SpecFrontmatter == InitFrontmatter /\ [][NextFrontmatter]_vars

InitSelection ==
    /\ InitFmPart
    /\ \E anchor \in Positions, head \in Positions :
          InitSelPart(Selection_new(anchor, head))
    /\ InitHistoryPart(History_new)
    /\ InitBufferPart(Buffer_new)
    /\ InitAppPart(Document_new, 5)
    /\ InitDocPart(Document_new, NoFiles)

NextSelection ==
    \/ \E delta \in Isize, extend \in BOOLEAN : SMoveLines(delta, extend)
    \/ \E delta \in Isize, extend \in BOOLEAN : SMoveCols(delta, extend)

SpecSelection == InitSelection /\ [][NextSelection]_vars

InitTui ==
    /\ InitFmPart
    /\ InitSelPart(Selection_cursor(Position_new(0, 0)))
    /\ InitHistoryPart(History_new)
    /\ InitBufferPart(Buffer_new)
    /\ InitAppPart(Document_new, 5)
    /\ InitDocPart(Document_new, NoFiles)

NextTui ==
    \/ \E doc \in TabDocs : TOpenDocument(doc)
    \/ TCloseActiveDocument
    \/ TNextDocument
    \/ TPrevDocument
    \/ TStartOpenPrompt
    \/ TStartSaveAsPrompt
    \/ TCancelInput
    \/ TFinishInput
    \/ TType("a")

SpecTui == InitTui /\ [][NextTui]_vars

\* main(): App::new, then new_document() or open_file("p")
InitSession ==
    /\ InitFmPart
    /\ InitSelPart(Selection_cursor(Position_new(0, 0)))
    /\ InitHistoryPart(History_new)
    /\ InitBufferPart(Buffer_new)
    /\ \E t \in {App_new_document(TuiApp_new),
                 App_open_file(TuiApp_new, SessionFiles, "p").tui},
          auto_save \in {0, AutoSaveSecs} :
          InitAppDocs(t.documents, t.active_doc, 5,
                      [DefaultConfig EXCEPT !.auto_save = auto_save])
    /\ InitDocPart(Document_new, SessionFiles)

NextSession ==
    \/ SIdle
    \/ SQuit
    \/ SSave
    \/ SOpen
    \/ SNew
    \/ SClose
    \/ SNextTab
    \/ SPrevTab
    \/ SEnter
    \/ SUndo
    \/ SUp
    \/ SDown
    \/ SPageUp
    \/ SPageDown
    \/ \E c \in PromptChars : SPromptChar(c)
    \/ SPromptEnter
    \/ SPromptEsc
    \/ SPromptBackspace
    \/ SPromptDelete
    \/ SPromptLeft
    \/ SPromptRight
    \/ SPromptHome
    \/ SPromptEnd

SpecSession == InitSession /\ [][NextSession]_vars

Spec == SpecApp

-----------------------------------------------------------------------------
(* The History claims, under SpecHistory *)

\* the N redos of a completed run returned the N records in the order pushed
RunReturnsPushOrder ==
    sym.redone = [i \in 1..Len(sym.pushed) |-> <<sym.pushed[i]>>]

RunComplete == sym.phase = "redo" /\ Len(sym.redone) = Len(sym.pushed)

\* C1, as amended: N records pushed onto a fresh History with N <= max_size,
\* then N undos, then N redos, end with undo_count() = N and redo_count() = 0,
\* and the redos return the records in the order they were pushed.
C1_Symmetry ==
    (RunComplete /\ Len(sym.pushed) <= history.max_size) =>
        /\ History_undo_count(history) = Len(sym.pushed)
        /\ History_redo_count(history) = 0
        /\ RunReturnsPushOrder

\* C1, as claimed: the same for every N, whatever max_size is.
C1_SymmetryAnyN ==
    RunComplete =>
        /\ History_undo_count(history) = Len(sym.pushed)
        /\ History_redo_count(history) = 0
        /\ RunReturnsPushOrder

\* a completed run of three records, not all equal, within max_size
C1_Witness ==
    /\ RunComplete
    /\ Len(sym.pushed) = 3
    /\ Len(sym.pushed) <= history.max_size
    /\ sym.pushed[1] # sym.pushed[2]

\* C2: right after record(e) the redo stack is empty and can_redo() is false,
\* whatever was undone before; and the redo stack never holds more than the
\* edits undone (and not redone) since the last record, so that an edit undone
\* before a record cannot be redone after it.
C2_RedoInvalidation ==
    /\ hist_op = "record" =>
          /\ History_redo_count(history) = 0
          /\ ~History_can_redo(history)
    /\ History_redo_count(history) = undone

\* a record made while edits were undone
C2_Witness ==
    /\ hist_op = "record"
    /\ Len(hist_before.redo_stack) >= 2

\* C3: undo_count() <= max_size in every state, for with_max_size(m), m >= 0,
\* and for new().
C3_UndoBounded == History_undo_count(history) <= history.max_size

\* a record onto a full undo stack
C3_Witness ==
    /\ hist_op = "record"
    /\ history.max_size >= 1
    /\ Len(hist_before.undo_stack) = history.max_size

\* a record has made the undo stack exceed max_size
RecordOverflowed ==
    hist_op = "record" /\ Len(hist_before.undo_stack) + 1 > history.max_size

\* C4, as amended: when record(e) makes the undo stack exceed max_size and
\* max_size >= 1, exactly one entry, the oldest, is evicted, e is the most
\* recent entry (the one the next undo() returns) and the others keep their
\* order; with max_size = 0 the entry evicted is e itself and the undo stack
\* stays empty.
C4_Eviction ==
    RecordOverflowed =>
        IF history.max_size >= 1
        THEN /\ Len(history.undo_stack) = Len(hist_before.undo_stack)
             /\ Last(history.undo_stack) = hist_arg[1]
             /\ Front(history.undo_stack) = Tail(hist_before.undo_stack)
             /\ History_undo(history).ret = hist_arg
        ELSE history.undo_stack = <<>>

\* C4, as claimed: for every max_size the oldest entry is evicted and e becomes
\* the most recent entry.
C4_EvictionAnySize ==
    RecordOverflowed =>
        /\ Len(history.undo_stack) = Len(hist_before.undo_stack)
        /\ history.undo_stack # <<>>
        /\ Last(history.undo_stack) = hist_arg[1]
        /\ Front(history.undo_stack) = Tail(hist_before.undo_stack)

\* an eviction from a stack of three entries, the oldest unlike the next
C4_Witness ==
    /\ RecordOverflowed
    /\ Len(hist_before.undo_stack) = 3
    /\ hist_before.undo_stack[1] # hist_before.undo_stack[2]

\* C5: undo() on a non-empty undo stack removes its most recent entry, pushes
\* it onto the redo stack and returns it; on an empty undo stack it returns
\* none and changes neither stack.
C5_Undo ==
    hist_op = "undo" =>
        IF hist_before.undo_stack # <<>>
        THEN /\ hist_ret = <<Last(hist_before.undo_stack)>>
             /\ history.undo_stack = Front(hist_before.undo_stack)
             /\ history.redo_stack = Append(hist_before.redo_stack, hist_ret[1])
             /\ History_undo_count(history) = History_undo_count(hist_before) - 1
             /\ History_redo_count(history) = History_redo_count(hist_before) + 1
        ELSE /\ hist_ret = <<>>
             /\ history = hist_before

\* an undo with two edits to undo and one already undone
C5_Witness ==
    /\ hist_op = "undo"
    /\ Len(hist_before.undo_stack) >= 2
    /\ hist_before.redo_stack # <<>>

\* redo() moves the most recently undone entry back and returns it, or
\* returns none and changes nothing
RedoMovesBack ==
    hist_op = "redo" =>
        IF hist_before.redo_stack # <<>>
        THEN /\ hist_ret = <<Last(hist_before.redo_stack)>>
             /\ history.redo_stack = Front(hist_before.redo_stack)
             /\ history.undo_stack = Append(hist_before.undo_stack, hist_ret[1])
        ELSE /\ hist_ret = <<>>
             /\ history = hist_before

\* C6, as amended: redo() on a non-empty redo stack removes the most recently
\* undone entry, pushes it onto the undo stack and returns it; on an empty redo
\* stack it returns none and changes neither stack.  An undo() that returned a
\* record, followed at once by redo(), leaves both stacks as they were.
C6_Redo ==
    /\ RedoMovesBack
    /\ (hist_op = "redo" /\ hist_prev.op = "undo" /\ hist_prev.ret # <<>>) =>
          history = hist_prev.before

\* C6, as claimed: every undo() followed at once by redo() leaves both stacks
\* as they were.
C6_RedoAfterAnyUndo ==
    /\ RedoMovesBack
    /\ (hist_op = "redo" /\ hist_prev.op = "undo") => history = hist_prev.before

\* a redo right after an undo that returned a record, with more left undone
C6_Witness ==
    /\ hist_op = "redo"
    /\ hist_prev.op = "undo"
    /\ hist_prev.ret # <<>>
    /\ Len(hist_before.redo_stack) >= 2
    /\ hist_before.redo_stack[1] # Last(hist_before.redo_stack)

-----------------------------------------------------------------------------
(* Lines of a text, computed by splitting it at its line breaks *)

\* the end of the first line break of a text that has one
FirstBreak(t) ==
    CHOOSE i \in 1..Len(t) :
        /\ t[i] = NL \/ (t[i] = CR /\ ~(i < Len(t) /\ t[i + 1] = NL))
        /\ \A j \in 1..(i - 1) : t[j] # NL /\ (t[j] # CR \/ (j + 1 = i /\ t[i] = NL))

RECURSIVE FullLines(_)
\* the lines of a text, each with its line break; the last one has none
FullLines(t) ==
    IF \A i \in 1..Len(t) : t[i] # NL /\ t[i] # CR THEN <<t>>
    ELSE <<SubSeq(t, 1, FirstBreak(t))>> \o FullLines(SubSeq(t, FirstBreak(t) + 1, Len(t)))

\* the length of the line break a line ends with: 2 for CRLF, 1 for LF or CR
BreakLen(l) ==
    IF Len(l) >= 2 /\ l[Len(l) - 1] = CR /\ l[Len(l)] = NL THEN 2
    ELSE IF Len(l) >= 1 /\ l[Len(l)] \in {NL, CR} THEN 1
    ELSE 0

\* the lines of a text, without their line breaks
SplitLines(t) ==
    [k \in 1..Len(FullLines(t)) |->
        SubSeq(FullLines(t)[k], 1, Len(FullLines(t)[k]) - BreakLen(FullLines(t)[k]))]

RECURSIVE StartOfLine(_, _)
\* the offset at which line l of a text starts, given its lines with their breaks
StartOfLine(full, l) ==
    IF l = 0 THEN 0 ELSE StartOfLine(full, l - 1) + Len(full[l])

\* line l of the split text ends with a line break: every line but the last
Terminated(lines, l) == l + 1 < Len(lines)

\* the text with the characters cs put in at offset i
InsertedAt(t, i, cs) == SubSeq(t, 1, i) \o cs \o SubSeq(t, i + 1, Len(t))

-----------------------------------------------------------------------------
(* The controller claims, under SpecApp *)

RunUndone == run.edits > 0 /\ run.undos = run.edits

\* C7: after k edits made through insert_char, insert_newline, delete_backward
\* and delete_forward, each recorded, k undos leave the buffer text as it was
\* before the first edit and the cursor where it was before the first edit.
C7_UndoLossless ==
    RunUndone =>
        /\ ~panicked
        /\ ActiveDoc.buffer.text = run.base.text
        /\ ActiveDoc.cursor = run.base.cursor

\* two edits undone
C7_Witness == RunUndone /\ run.edits = 2 /\ ~panicked

\* C9, its second part: characters typed one after another from an end-of-line
\* cursor are appended to that line in the order typed.
C9_TypedOrder ==
    typed.on =>
        LET lines == SplitLines(typed.start.text)
            l == typed.start.cursor[1]
        IN  ActiveDoc.buffer.text =
                InsertedAt(typed.start.text,
                           StartOfLine(FullLines(typed.start.text), l) + Len(lines[l + 1]),
                           typed.chars)

-----------------------------------------------------------------------------
(* The Buffer claims, under SpecBuffer *)

Converted == query.op = "line_col_to_char" /\ ~query.panic

QLines == SplitLines(buffer.text)
QLineLen == Len(QLines[query.line + 1])
QLineStart == StartOfLine(FullLines(buffer.text), query.line)
\* the length of the line break the line asked for ends with, 0 if it has none
QBreakLen == BreakLen(FullLines(buffer.text)[query.line + 1])

\* C8, as amended: line_col_to_char(line, col) is the start-of-line offset plus
\* min(col, N - 1), N the length of the line with its line break (and 0 for
\* N = 0): on a line that ends with a one-character line break the column is
\* clamped to L, the offset of the line break (to L + 1, the LF, when the line
\* ends with CRLF), and on the last line, which has none, to L - 1, its last
\* character, where L is the length without the line break.
C8_ColumnClamp ==
    Converted =>
        query.offset = QLineStart +
            (IF Terminated(QLines, query.line)
             THEN Min(query.col, QLineLen + QBreakLen - 1)
             ELSE Min(query.col, saturating_sub(QLineLen, 1)))

\* C8, as claimed: the column is clamped to L - 1 on every line.
C8_ColumnClampToLastChar ==
    Converted => query.offset = QLineStart + Min(query.col, saturating_sub(QLineLen, 1))

\* a column past the end of a line that ends with a line break
C8_Witness ==
    /\ Converted
    /\ Terminated(QLines, query.line)
    /\ QLineLen >= 1
    /\ query.col > QLineLen

\* C9, its first part: for a cursor at the end of a line, line_col_to_char is
\* the offset just after the line's last character, which on the last line of
\* the buffer is len_chars().
C9_EndOfLineOffset ==
    (Converted /\ query.col = QLineLen) =>
        /\ query.offset = QLineStart + QLineLen
        /\ ~Terminated(QLines, query.line) => query.offset = Buffer_len_chars(buffer)

\* C10: for a line l < len_lines() and a column c, char_to_line_col of
\* line_col_to_char(l, c) is on line l, at the column that is the offset less
\* the start of line l.
C10_CoordinateInverse ==
    (query.op = "round_trip" /\ ~query.panic) =>
        query.pos = <<query.line, query.offset - QLineStart>>

\* a round trip from inside the second line of a text
C10_Witness ==
    /\ query.op = "round_trip"
    /\ ~query.panic
    /\ query.line = 1
    /\ query.col >= 1
    /\ query.offset > QLineStart

\* C11: a buffer has at least one line in every state reachable from new() or
\* from_str(s) by in-range inserts, deletes and replaces, and a buffer of no
\* characters has exactly one line, which is empty.
C11_AtLeastOneLine ==
    /\ Buffer_len_lines(buffer) >= 1
    /\ Buffer_len_chars(buffer) = 0 =>
          /\ Buffer_len_lines(buffer) = 1
          /\ Buffer_line(buffer, 0) = << <<>> >>
          /\ Buffer_line(buffer, 1) = <<>>

\* a delete has emptied a buffer of two lines
C11_Witness ==
    /\ buf_call.op = "delete"
    /\ ~buf_call.panic
    /\ Buffer_len_lines(buf_call.before) >= 2
    /\ buffer.text = <<>>

\* insert(len_chars(), "\n") has returned
NewlineAppended ==
    /\ buf_call.op = "insert"
    /\ ~buf_call.panic
    /\ buf_call.start = Buffer_len_chars(buf_call.before)
    /\ buf_call.text = <<NL>>

\* the text ends with a carriage return
EndsWithCR(t) == Len(t) > 0 /\ t[Len(t)] = CR

\* C12, as amended: insert(len_chars(), "\n") increases len_lines() by exactly 1
\* unless the text ends with a carriage return; then the line feed completes a
\* CRLF, which is one line break, and len_lines() stays as it was.
C12_NewlineAddsLine ==
    NewlineAppended =>
        Buffer_len_lines(buffer) =
            Buffer_len_lines(buf_call.before)
                + (IF EndsWithCR(buf_call.before.text) THEN 0 ELSE 1)

\* C12, as claimed: for every buffer content the line count goes up by 1.
C12_NewlineAddsLineAlways ==
    NewlineAppended => Buffer_len_lines(buffer) = Buffer_len_lines(buf_call.before) + 1

\* a line feed appended to a text of two lines that ends with a line feed
C12_Witness ==
    /\ NewlineAppended
    /\ Buffer_len_lines(buf_call.before) = 2
    /\ Len(buf_call.before.text) = 2
    /\ buf_call.before.text[2] = NL

Mutators == {"insert", "delete", "replace"}

\* C13: the modified flag is false after new() and from_str(), true after every
\* insert, delete or replace that returns, and goes back to false only through
\* mark_saved(), which leaves the text alone; text, line, slice and the offset
\* conversions change neither the flag nor the text.
C13_ModifiedFlag ==
    /\ buf_call.op = "none" => ~Buffer_is_modified(buffer)
    /\ (buf_call.op \in Mutators /\ ~buf_call.panic) => Buffer_is_modified(buffer)
    /\ buf_call.op = "mark_saved" =>
          ~Buffer_is_modified(buffer) /\ buffer.text = buf_call.before.text
    /\ (buf_call.op # "none" /\ Buffer_is_modified(buf_call.before)
            /\ ~Buffer_is_modified(buffer)) => buf_call.op = "mark_saved"
    /\ buf_call.op \notin Mutators \cup {"mark_saved", "none"} => buffer = buf_call.before

\* a delete of nothing, on a buffer that was saved, has set the flag
C13_Witness ==
    /\ buf_call.op = "delete"
    /\ ~buf_call.panic
    /\ buf_call.start = buf_call.end
    /\ buf_call.before.text # <<>>
    /\ ~Buffer_is_modified(buf_call.before)
    /\ Buffer_is_modified(buffer)

\* the arguments of the last call were out of range
OutOfRange ==
    \/ buf_call.op = "insert" /\ buf_call.start > Buffer_len_chars(buf_call.before)
    \/ /\ buf_call.op \in {"delete", "replace"}
       /\ \/ buf_call.end > Buffer_len_chars(buf_call.before)
          \/ buf_call.start > buf_call.end

\* C14: line(i) is none for every i >= len_lines() and otherwise the i-th line
\* with its line break; an insert past len_chars(), and a delete or replace of
\* a range that ends past len_chars() or starts after its end, panics and
\* leaves the text and the modified flag as they were.
C14_OutOfRange ==
    /\ buf_call.op = "line" =>
          buf_call.ret =
              IF buf_call.start >= Len(FullLines(buf_call.before.text)) THEN <<>>
              ELSE <<FullLines(buf_call.before.text)[buf_call.start + 1]>>
    /\ OutOfRange => buf_call.panic /\ buffer = buf_call.before

\* line(i) asked one past the last line of a text of two lines
C14_Witness ==
    /\ buf_call.op = "line"
    /\ Buffer_len_lines(buf_call.before) = 2
    /\ buf_call.start = 2

\* a replace whose range starts after its end, on a buffer with text
C14_WitnessPanic ==
    /\ buf_call.op = "replace"
    /\ buf_call.start > buf_call.end
    /\ buf_call.before.text # <<>>
    /\ buf_call.panic

-----------------------------------------------------------------------------
(* The Document claims, under SpecDocHtml and SpecDocFile *)

HtmlCalled == doc_call.op = "html"
HtmlRet == doc_call.ret[1]
\* html() was called before and invalidate_cache() was not called since
CacheValid == doc_call.seen.ret # <<>> /\ ~doc_call.seen.invalidated

\* C15: html() returns a fresh rendering of the buffer text when the cache is
\* dirty or unset and the cached rendering otherwise, and leaves the cache
\* clean and holding what it returned: an html() with no invalidate_cache()
\* since the one before returns what that one returned, and the first html()
\* and the first one after an invalidate_cache() return the rendering of the
\* buffer text as it is then.
C15_HtmlCache ==
    HtmlCalled =>
        /\ HtmlRet = IF doc_call.before.html_dirty \/ doc_call.before.cached_html = <<>>
                     THEN MarkdownParser_to_html(doc_call.before.buffer.text)
                     ELSE doc_call.before.cached_html[1]
        /\ ~document.html_dirty
        /\ document.cached_html = <<HtmlRet>>
        /\ document.buffer = doc_call.before.buffer
        /\ CacheValid => HtmlRet = doc_call.seen.ret[1]
        /\ ~CacheValid => HtmlRet = MarkdownParser_to_html(document.buffer.text)

\* the first html() after a mutation and an invalidate_cache() returns another
\* rendering than the html() before them
C15_Witness ==
    /\ HtmlCalled
    /\ doc_call.seen.ret # <<>>
    /\ doc_call.seen.invalidated
    /\ doc_call.seen.mutated
    /\ HtmlRet # doc_call.seen.ret[1]

\* C16: an insert, delete or replace made directly on doc.buffer leaves the
\* cached rendering and the dirty flag as they were, so that html(), called
\* before the mutations and again after them with no invalidate_cache() in
\* between, returns the rendering of the text as it was before them.
C16_DirectMutation ==
    /\ doc_call.op \in Mutators =>
          /\ document.cached_html = doc_call.before.cached_html
          /\ document.html_dirty = doc_call.before.html_dirty
    /\ (HtmlCalled /\ CacheValid) =>
          HtmlRet = MarkdownParser_to_html(doc_call.seen.text)

\* html() after a mutation returns a rendering that is not the current text's
C16_Witness ==
    /\ HtmlCalled
    /\ CacheValid
    /\ doc_call.seen.mutated
    /\ HtmlRet # MarkdownParser_to_html(document.buffer.text)

\* C17: save() on a document without a path returns the NotFound error, writes
\* no file and leaves the document as it was.
C17_SaveNoPath ==
    (doc_call.op = "save" /\ doc_call.before.path = <<>>) =>
        /\ ~doc_call.ok
        /\ doc_call.ret = <<"NotFound">>
        /\ fs = doc_call.fs_before
        /\ document = doc_call.before

\* save() on a modified document with frontmatter and no path
C17_Witness ==
    /\ doc_call.op = "save"
    /\ doc_call.before.path = <<>>
    /\ doc_call.before.frontmatter # <<>>
    /\ Document_is_modified(doc_call.before)

\* the delimiter of a frontmatter format
Delimiter(format) == IF format = "Yaml" THEN Dashes ELSE Pluses

\* what a document is to be saved as: the delimited block, a line feed and the
\* buffer text, or the buffer text alone
Saved(d) ==
    IF d.frontmatter = <<>> THEN d.buffer.text
    ELSE Delimiter(d.frontmatter[1].format) \o <<NL>> \o d.frontmatter[1].raw \o <<NL>>
             \o Delimiter(d.frontmatter[1].format) \o <<NL>> \o d.buffer.text

\* C18: a save() with the path set whose write succeeds writes exactly
\* full_content(), the delimited frontmatter block, a line feed and the buffer
\* text, or the buffer text alone, to the file at the path and to no other, and
\* leaves the document unmodified.
C18_SaveWrites ==
    (doc_call.op = "save" /\ doc_call.before.path # <<>> /\ doc_call.ok) =>
        /\ Document_full_content(doc_call.before) = Saved(doc_call.before)
        /\ fs = [doc_call.fs_before EXCEPT ![doc_call.before.path[1]] = <<Saved(doc_call.before)>>]
        /\ ~Document_is_modified(document)
        /\ document.buffer.text = doc_call.before.buffer.text

\* a modified document with frontmatter saved over a file with other content
C18_Witness ==
    /\ doc_call.op = "save"
    /\ doc_call.ok
    /\ doc_call.before.frontmatter # <<>>
    /\ Document_is_modified(doc_call.before)
    /\ doc_call.fs_before[doc_call.before.path[1]] \notin {<<>>, fs[doc_call.before.path[1]]}

\* C19: save_as(p) leaves the path p, whether the write succeeds or not; when
\* it succeeds the file at p holds full_content() and the document is
\* unmodified, and when it fails no file and nothing else of the document has
\* changed.
C19_SaveAs ==
    doc_call.op = "save_as" =>
        /\ document.path = <<doc_call.path>>
        /\ doc_call.ok =>
              /\ fs = [doc_call.fs_before EXCEPT ![doc_call.path] = <<Saved(doc_call.before)>>]
              /\ document = [doc_call.before EXCEPT !.path = <<doc_call.path>>,
                                                    !.buffer.modified = FALSE]
        /\ ~doc_call.ok =>
              /\ fs = doc_call.fs_before
              /\ document = [doc_call.before EXCEPT !.path = <<doc_call.path>>]

\* a save_as that failed on a document that had another path
C19_Witness ==
    /\ doc_call.op = "save_as"
    /\ ~doc_call.ok
    /\ doc_call.before.path \notin {<<>>, <<doc_call.path>>}
    /\ Document_is_modified(doc_call.before)

\* a document as loading leaves it, but for its path
JustLoaded(d) ==
    /\ d.cursor = <<0, 0>>
    /\ d.scroll_offset = 0
    /\ ~History_can_undo(d.history) /\ ~History_can_redo(d.history)
    /\ d.html_dirty /\ d.cached_html = <<>>
    /\ ~Document_is_modified(d)

\* C20: a document made by from_content has cursor (0,0), scroll_offset 0, no
\* path, an empty history, a dirty cache and is unmodified; one made by
\* from_file has the same but the path of the file.
C20_LoadIsNoEdit ==
    /\ doc_call.op = "none" => JustLoaded(document) /\ document.path = <<>>
    /\ (doc_call.op = "from_file" /\ doc_call.ok) =>
          /\ JustLoaded(document)
          /\ document.path = <<doc_call.path>>

\* a file with frontmatter loaded over a modified document
C20_Witness ==
    /\ doc_call.op = "from_file"
    /\ doc_call.ok
    /\ Document_is_modified(doc_call.before)
    /\ document.frontmatter # <<>>

\* the text of a frontmatter value: of a string its characters
TextOf(v) == IF v.kind = "string" THEN v.str ELSE Value_to_string(v)

\* C21: title() is the text of the frontmatter's "title" field if there is
\* frontmatter with that field, else the file name of the path if there is
\* one, else "Untitled"; with the frontmatter title: t it is exactly t.
C21_Title ==
    doc_call.op = "title" =>
        doc_call.ret[1] =
            IF document.frontmatter # <<>>
                  /\ \E e \in document.frontmatter[1].data : e.key = TitleKey
            THEN TextOf((CHOOSE e \in document.frontmatter[1].data : e.key = TitleKey).value)
            ELSE IF document.path \notin {<<>>, <<"..">>}
            THEN <<"p", ".", "m", "d">>
            ELSE Untitled

-----------------------------------------------------------------------------
(* The Frontmatter claims, under SpecFrontmatter *)

\* C22: for a valid payload m and a body b, extract(delimited(m) + "\n" + b)
\* gives a frontmatter whose to_string() is delimited(m) exactly and a body
\* that is b exactly.
C22_RoundTrip ==
    fm_call.op = "round_trip" =>
        /\ fm_call.ret.frontmatter # <<>>
        /\ Frontmatter_to_string(fm_call.ret.frontmatter[1])
              = delimited(fm_call.format, fm_call.payload)
        /\ fm_call.ret.body = fm_call.body

\* the content without its leading whitespace, and the delimiter it opens with
Trimmed == trim_start(fm_call.content)
Opens(delim) == starts_with(Trimmed, delim)

\* C23: for a text t that does not open with a delimiter, whatever its leading
\* whitespace, extract(t) is (None, t), t as it was given.
C23_NoFrontmatter ==
    (fm_call.op = "extract" /\ ~Opens(Dashes) /\ ~Opens(Pluses)) =>
        fm_call.ret = [frontmatter |-> <<>>, body |-> fm_call.content]

\* a text with leading whitespace and a delimiter line further down
C23_Witness ==
    /\ fm_call.op = "extract"
    /\ ~Opens(Dashes) /\ ~Opens(Pluses)
    /\ Trimmed # fm_call.content
    /\ Occurrences(fm_call.content, <<NL>> \o Dashes) # {}
    /\ fm_call.ret.body = fm_call.content

RECURSIVE LineOffset(_, _)
\* the offset at which line k (from 1) of t begins
LineOffset(t, k) ==
    IF k = 1 THEN 0 ELSE LineOffset(t, k - 1) + Len(split(t, NL)[k - 1]) + 1

\* the lines after the first that consist solely of delim
ClosingLines(t, delim) ==
    { k \in 2..Len(split(t, NL)) : split(t, NL)[k] = delim }

\* the text strictly between the opening line and the first closing line
PayloadOf(t, delim) ==
    LET k == CHOOSE c \in ClosingLines(t, delim) :
                 \A o \in ClosingLines(t, delim) : c <= o
    IN  SubSeq(t, LineOffset(t, 2) + 1, LineOffset(t, k) - 1)

\* the payload parses to a mapping; the parsers take no notice of blank lines
\* around it
Parses(format, payload) ==
    IF format = "Yaml" THEN parse_yaml(trim(payload)).ok
    ELSE parse_toml(trim(payload)).ok

\* the content opens with delim but has no closing delimiter line, or the
\* payload up to it is no mapping
FailsWith(delim, format) ==
    /\ Opens(delim)
    /\ \/ ClosingLines(Trimmed, delim) = {}
       \/ ~Parses(format, PayloadOf(Trimmed, delim))

\* C24: when the content opens with a delimiter and the closing delimiter is
\* missing, or the payload does not parse, or is no mapping, extract gives
\* (None, the content as it was given).
C24_FailureIsNoFrontmatter ==
    (fm_call.op = "extract" /\ (FailsWith(Dashes, "Yaml") \/ FailsWith(Pluses, "Toml"))) =>
        fm_call.ret = [frontmatter |-> <<>>, body |-> fm_call.content]

-----------------------------------------------------------------------------
(* The Selection claims, under SpecSelection *)

\* a is before b, or is b, in the order by line and then column
Leq(a, b) == a.line < b.line \/ (a.line = b.line /\ a.col <= b.col)

\* C25: start() is the lesser and end() the greater of anchor and head in the
\* order by line and then column, so start() <= end() and the two are anchor
\* and head; is_cursor() holds iff anchor = head, and then start() = end().
C25_StartEnd ==
    /\ Leq(Selection_start(selection), selection.anchor)
    /\ Leq(Selection_start(selection), selection.head)
    /\ Leq(selection.anchor, Selection_end(selection))
    /\ Leq(selection.head, Selection_end(selection))
    /\ Leq(Selection_start(selection), Selection_end(selection))
    /\ {Selection_start(selection), Selection_end(selection)}
          = {selection.anchor, selection.head}
    /\ Selection_is_cursor(selection) <=> selection.anchor = selection.head
    /\ Selection_is_cursor(selection) =>
          Selection_start(selection) = Selection_end(selection)

\* a backward selection within one line, left by move_cols
C25_Witness ==
    /\ sel_call.op = "move_cols"
    /\ selection.anchor.line = selection.head.line
    /\ selection.anchor.col > selection.head.col
    /\ Selection_start(selection) = selection.head
    /\ Selection_end(selection) = selection.anchor

\* coord + delta, kept within 0..UsizeMax
Clamped(coord, delta) ==
    IF coord + delta < 0 THEN 0
    ELSE IF coord + delta > UsizeMax THEN UsizeMax
    ELSE coord + delta

\* C26: move_lines(delta, extend) changes head.line alone and move_cols
\* head.col alone, to the old value plus delta kept within 0..usize::MAX; the
\* anchor is the new head when extend is false, and is unchanged when true.
C26_Moves ==
    /\ sel_call.op = "move_lines" =>
          /\ selection.head.line = Clamped(sel_call.before.head.line, sel_call.delta)
          /\ selection.head.col = sel_call.before.head.col
    /\ sel_call.op = "move_cols" =>
          /\ selection.head.col = Clamped(sel_call.before.head.col, sel_call.delta)
          /\ selection.head.line = sel_call.before.head.line
    /\ sel_call.op \in {"move_lines", "move_cols"} =>
          selection.anchor = IF sel_call.extend THEN sel_call.before.anchor
                             ELSE selection.head

\* a move past usize::MAX that extends the selection
C26_Witness ==
    /\ sel_call.op = "move_lines"
    /\ sel_call.extend
    /\ sel_call.before.head.line + sel_call.delta > UsizeMax
    /\ selection.head.line = UsizeMax
    /\ selection.anchor # selection.head

-----------------------------------------------------------------------------
(* The controller claims about tabs, the cursor, redo and Backspace, under  *)
(* SpecApp *)

\* the tabs other than the active one
OtherTabs == { i \in 1..Len(tui.documents) : i # tui.active_doc + 1 }

\* C27: a key event in normal mode changes only the active document: the
\* buffer (text and modified flag), history, cursor and scroll offset of every
\* other open document are as they were.
C27_Independent ==
    [][ /\ Len(tui'.documents) = Len(tui.documents)
        /\ \A i \in OtherTabs :
              /\ tui'.documents[i].buffer = tui.documents[i].buffer
              /\ tui'.documents[i].history = tui.documents[i].history
              /\ tui'.documents[i].cursor = tui.documents[i].cursor
              /\ tui'.documents[i].scroll_offset = tui.documents[i].scroll_offset ]_vars

\* the second tab active, edited, an edit undone, and the first tab as it was
C27_Witness ==
    /\ Len(tui.documents) = 2
    /\ tui.active_doc = 1
    /\ Document_is_modified(ActiveDoc)
    /\ History_can_redo(ActiveDoc.history)
    /\ ActiveDoc.cursor # <<0, 0>>
    /\ tui.documents[1] = OtherDoc

\* C28: while the controller runs, the active document's cursor is on a line
\* of the buffer and its column is at most the length of that line without its
\* line break.
C28_CursorValid ==
    ~panicked =>
        /\ ActiveDoc.cursor[1] < Len(SplitLines(ActiveDoc.buffer.text))
        /\ ActiveDoc.cursor[2]
              <= Len(SplitLines(ActiveDoc.buffer.text)[ActiveDoc.cursor[1] + 1])

\* C29: when the last recorded edit is undone and Ctrl+Y is pressed next, the
\* redo leaves the text, the cursor, undo_count and redo_count as they were
\* right after that edit.
C29_UndoRedo ==
    followed.kind = "redone" =>
        /\ ~panicked
        /\ Counted(ActiveDoc) = followed.after

\* the text without the line break that ends its line n - 1
Joined(t, n) ==
    SubSeq(t, 1, StartOfLine(FullLines(t), n) - BreakLen(FullLines(t)[n]))
        \o SubSeq(t, StartOfLine(FullLines(t), n) + 1, Len(t))

\* C30: Backspace with the cursor at column 0 of line n > 0 removes the line
\* break that ends line n - 1 and leaves the cursor at (n - 1, L), L the
\* length line n - 1 had.
C30_BackspaceJoins ==
    followed.kind = "joined" =>
        /\ ActiveDoc.buffer.text = Joined(followed.before.text, followed.before.cursor[1])
        /\ ActiveDoc.cursor =
              <<followed.before.cursor[1] - 1,
                Len(SplitLines(followed.before.text)[followed.before.cursor[1]])>>

-----------------------------------------------------------------------------
(* The controller claims about Delete and the spans of undo and redo, under *)
(* SpecApp.  They are stated of the handler's result in every state the    *)
(* controller reaches.                                                     *)

\* the cursor is on a line of the text, at a column of that line or at its end
CursorOnText(doc) ==
    /\ doc.cursor[1] < Len(SplitLines(doc.buffer.text))
    /\ doc.cursor[2] <= Len(SplitLines(doc.buffer.text)[doc.cursor[1] + 1])

\* the offset in the text of the cursor's (line, col)
CursorOffset(doc) ==
    StartOfLine(FullLines(doc.buffer.text), doc.cursor[1]) + doc.cursor[2]

\* the document the Delete key leaves active, and whether the handler panicked
AfterDelete == App_handle_key(tui, app, fs, Key("Delete"))

\* C31: the Delete key removes exactly the character at the cursor's
\* (line, col) and leaves the cursor in place; with the cursor at the end of
\* the buffer it changes neither the text, the modified flag, the cursor nor
\* the history.
C31_Delete ==
    (~panicked /\ CursorOnText(ActiveDoc)) =>
        /\ ~AfterDelete.panic
        /\ TuiApp_active_document(AfterDelete.tui).cursor = ActiveDoc.cursor
        /\ IF CursorOffset(ActiveDoc) < Len(ActiveDoc.buffer.text)
           THEN TuiApp_active_document(AfterDelete.tui).buffer.text =
                    SubSeq(ActiveDoc.buffer.text, 1, CursorOffset(ActiveDoc))
                    \o SubSeq(ActiveDoc.buffer.text, CursorOffset(ActiveDoc) + 2,
                              Len(ActiveDoc.buffer.text))
           ELSE /\ TuiApp_active_document(AfterDelete.tui).buffer = ActiveDoc.buffer
                /\ TuiApp_active_document(AfterDelete.tui).history = ActiveDoc.history

\* the text without the n characters from offset i on
RemovedAt(t, i, n) == SubSeq(t, 1, i) \o SubSeq(t, i + n + 1, Len(t))

\* the edit Ctrl+Z reverses and the edit Ctrl+Y re-applies, <<>> when none
ToUndo == History_undo(ActiveDoc.history).ret
ToRedo == History_redo(ActiveDoc.history).ret

\* C32: undo of an insertion removes from the buffer the span
\* [position, position + n), n the number of characters of the inserted text,
\* and redo of a deletion the span of the deleted text's n characters, for
\* text of any characters.
C32_SpanInChars ==
    ~panicked =>
        /\ (ToUndo # <<>> /\ ToUndo[1].inserted # <<>>) =>
              /\ ~App_undo(ActiveDoc).panic
              /\ App_undo(ActiveDoc).doc.buffer.text =
                    InsertedAt(RemovedAt(ActiveDoc.buffer.text, ToUndo[1].position,
                                         Len(ToUndo[1].inserted)),
                               ToUndo[1].position, ToUndo[1].deleted)
        /\ (ToRedo # <<>> /\ ToRedo[1].deleted # <<>>) =>
              /\ ~App_redo(ActiveDoc).panic
              /\ App_redo(ActiveDoc).doc.buffer.text =
                    InsertedAt(RemovedAt(ActiveDoc.buffer.text, ToRedo[1].position,
                                         Len(ToRedo[1].deleted)),
                               ToRedo[1].position, ToRedo[1].inserted)

-----------------------------------------------------------------------------
(* The claim about a failed save, under SpecDocFile *)

\* the last call was a save() whose std::fs::write failed: the document has a
\* path, and it is one that cannot be written
WriteFailed ==
    /\ doc_call.op \in {"save", "save_as"}
    /\ document.path # <<>>
    /\ document.path[1] \in Unwritable

\* C38: when the file write fails, save() returns the I/O error and does not
\* mark the buffer saved: is_modified() and the buffer text are as before the
\* call.
C38_SaveFails ==
    WriteFailed =>
        /\ ~doc_call.ok
        /\ doc_call.ret = <<"io">>
        /\ Document_is_modified(document) = Document_is_modified(doc_call.before)
        /\ Buffer_text(document.buffer) = Buffer_text(doc_call.before.buffer)

\* a failed save() of a document with unsaved changes
C38_Witness ==
    /\ WriteFailed
    /\ doc_call.op = "save"
    /\ Document_is_modified(doc_call.before)
    /\ Document_is_modified(document)
    /\ ~doc_call.ok

-----------------------------------------------------------------------------
(* The claim about the closing delimiter, under SpecFrontmatter *)

\* the delimiter of the frontmatter that extract returned
FoundDelim == Delimiter(fm_call.ret.frontmatter[1].format)

\* C39: extract takes as the closing delimiter only a line that consists
\* solely of the delimiter, a line that merely begins with it does not end
\* the block, and raw is the text strictly between the opening line and that
\* closing line.
C39_ClosingLine ==
    (fm_call.op = "extract" /\ fm_call.ret.frontmatter # <<>>) =>
        /\ ClosingLines(Trimmed, FoundDelim) # {}
        /\ fm_call.ret.frontmatter[1].raw = PayloadOf(Trimmed, FoundDelim)

-----------------------------------------------------------------------------
(* The claims about the prompt and the tabs of the TUI state, under SpecTui *)

\* C34: whatever the sequence of start_open_prompt, start_save_as_prompt,
\* cancel_input and finish_input, input_mode is not Normal exactly when a
\* prompt is present; a started prompt has an empty buffer and cursor 0;
\* cancel_input and finish_input leave Normal mode and no prompt, and
\* finish_input returns the buffer typed, or None with the state as it was
\* when no prompt was active.
C34_PromptMode ==
    /\ TuiApp_is_input_mode(tui) <=> tui.input_prompt # <<>>
    /\ tui_call.op = "start_open_prompt" =>
          /\ tui.input_mode = "OpenFile"
          /\ tui.input_prompt = <<[prompt |-> OpenPrompt, buffer |-> <<>>, cursor |-> 0]>>
    /\ tui_call.op = "start_save_as_prompt" =>
          /\ tui.input_mode = "SaveAs"
          /\ tui.input_prompt = <<[prompt |-> SaveAsPrompt, buffer |-> <<>>, cursor |-> 0]>>
    /\ tui_call.op \in {"cancel_input", "finish_input"} =>
          /\ tui.input_mode = "Normal"
          /\ tui.input_prompt = <<>>
    /\ (tui_call.op = "finish_input" /\ tui_call.before.input_prompt # <<>>) =>
          tui_call.ret = <<tui_call.before.input_prompt[1].buffer>>
    /\ (tui_call.op = "finish_input" /\ tui_call.before.input_prompt = <<>>) =>
          /\ tui_call.ret = <<>>
          /\ tui = tui_call.before

\* finish_input has returned a buffer that was typed into a Save As prompt
C34_Witness ==
    /\ tui_call.op = "finish_input"
    /\ tui_call.before.input_mode = "SaveAs"
    /\ tui_call.ret = <<<<"a", "a">>>>
    /\ tui.input_mode = "Normal"

\* C36: whatever the sequence of open_document, close_active_document,
\* next_document and prev_document, there is a document and active_doc is an
\* index of the list; closing the only document is a no-op; next_document and
\* prev_document wrap around and undo each other.
C36_Tabs ==
    /\ Len(tui.documents) >= 1
    /\ tui.active_doc < Len(tui.documents)
    /\ (tui_call.op = "close_active_document" /\ Len(tui_call.before.documents) = 1) =>
          tui = tui_call.before
    /\ tui_call.op = "next_document" =>
          /\ tui.active_doc = (tui_call.before.active_doc + 1) % Len(tui.documents)
          /\ tui.documents = tui_call.before.documents
    /\ tui_call.op = "prev_document" =>
          /\ tui.active_doc =
                (tui_call.before.active_doc + Len(tui.documents) - 1) % Len(tui.documents)
          /\ tui.documents = tui_call.before.documents
    /\ TuiApp_prev_document(TuiApp_next_document(tui)) = tui
    /\ TuiApp_next_document(TuiApp_prev_document(tui)) = tui

\* the last of three tabs was active and has been closed
C36_Witness ==
    /\ tui_call.op = "close_active_document"
    /\ Len(tui_call.before.documents) = 3
    /\ tui_call.before.active_doc = 2
    /\ Len(tui.documents) = 2
    /\ tui.active_doc = 1


\* the key events handed to handle_key
KeyEvents ==
    { Key(c) : c \in CommandKeys \cup NavigationKeys \cup
                     {"Enter", "Backspace", "Delete", "Tab", "Esc", "Ctrl+Z", "Ctrl+Y", "F1"} }
    \cup {KeyOfChar("p")}

\* the turn the loop would take next with the key, at the height h, dt
\* seconds going by
NextTurn(key, h, dt) == App_run_turn(tui, app, fs, h, key, dt)

\* C33: should_quit becomes true only in a turn whose key event is a Ctrl+Q in
\* normal mode, pressed when no document is modified or directly after a
\* Ctrl+Q that armed the warning; every other normal-mode key disarms the
\* warning, and the warning is armed only by such a Ctrl+Q.
C33_QuitConfirmed ==
    /\ Looping /\ app.quit_pending => event.quit_key /\ ~InPrompt
    /\ Looping =>
         \A key \in KeyEvents \cup {NoKey}, h \in SessionHeights, dt \in Elapses :
            /\ NextTurn(key, h, dt).tui.should_quit =>
                  /\ key.code = "Ctrl+Q"
                  /\ ~InPrompt
                  /\ ~TuiApp_has_unsaved_changes(tui) \/ (event.quit_key /\ app.quit_pending)
            /\ key.code \notin {"Ctrl+Q", "none"} /\ ~InPrompt =>
                  ~NextTurn(key, h, dt).app.quit_pending

\* the program quit with unsaved changes, on the second Ctrl+Q
C33_Witness ==
    tui.should_quit /\ TuiApp_has_unsaved_changes(tui) /\ event.quit_key /\ app.quit_pending


\* what handle_key would do next with the key, at the height h
NextKey(key, h) == App_handle_key(tui, [app EXCEPT !.terminal_height = h], fs, key)

\* C35: while a prompt is active, no key but Enter changes a document (its
\* buffer, history, cursor, path, modified flag), the active tab or the quit
\* state, and Esc returns to normal mode.
C35_PromptOnly ==
    Looping /\ InPrompt =>
        \A key \in KeyEvents \ {Key("Enter")}, h \in SessionHeights :
            /\ NextKey(key, h).tui.documents = tui.documents
            /\ NextKey(key, h).tui.active_doc = tui.active_doc
            /\ NextKey(key, h).tui.should_quit = tui.should_quit
            /\ NextKey(key, h).app.quit_pending = app.quit_pending
            /\ NextKey(key, h).err = ""
            /\ key.code = "Esc" =>
                  /\ NextKey(key, h).tui.input_mode = "Normal"
                  /\ NextKey(key, h).tui.input_prompt = <<>>

\* a key was typed into a prompt while a document had unsaved changes
C35_Witness ==
    /\ InPrompt
    /\ tui.input_prompt[1].buffer # <<>>
    /\ TuiApp_has_unsaved_changes(tui)


\* the lines of the window of a terminal of the height h: the height minus
\* 3, saturating at 0, and at least 1
WindowSize(h) == IF h > 3 THEN h - 3 ELSE 1

\* the cursor line of the document is inside the window of a terminal of
\* the height h
CursorInWindow(doc, h) ==
    /\ doc.scroll_offset <= doc.cursor[1]
    /\ doc.cursor[1] <= doc.scroll_offset + WindowSize(h) - 1

AutoSaveAfter(e) == App_check_auto_save(tui, [app EXCEPT !.elapsed = e], fs)

\* the indices of the open documents that are modified and have a path
ToAutoSave ==
    { i \in 0..(Len(tui.documents) - 1) :
        Document_is_modified(tui.documents[i + 1]) /\ tui.documents[i + 1].path # <<>> }

\* the calls of save() in r, a result of check_auto_save, are those of the
\* documents of ToAutoSave, one each, in the order of the tabs
SavesExactly(r) ==
    /\ Len(r.saved) = Cardinality(ToAutoSave)
    /\ { r.saved[k].index : k \in 1..Len(r.saved) } = ToAutoSave
    /\ \A k \in 1..(Len(r.saved) - 1) : r.saved[k].index < r.saved[k + 1].index

\* C40: auto-save, when enabled and due, calls save on exactly the open
\* documents that are modified and have a path, a failed call stopping none
\* of the later ones; a document saved successfully is unmodified afterwards,
\* the others are left as they were, and no error is returned; when it is
\* not due, or auto_save is 0, no document is saved.
C40_AutoSave ==
    Looping =>
        /\ app.config.auto_save = 0 =>
              \A e \in 0..AutoSaveSecs :
                  /\ AutoSaveAfter(e).saved = <<>>
                  /\ AutoSaveAfter(e).tui = tui
                  /\ AutoSaveAfter(e).files = fs
                  /\ AutoSaveAfter(e).err = ""
        /\ app.config.auto_save > 0 =>
              /\ SavesExactly(AutoSaveAfter(app.config.auto_save))
              /\ AutoSaveAfter(app.config.auto_save).err = ""
              /\ Len(AutoSaveAfter(app.config.auto_save).tui.documents) = Len(tui.documents)
              /\ \A k \in 1..Len(AutoSaveAfter(app.config.auto_save).saved) :
                    AutoSaveAfter(app.config.auto_save).saved[k].ok =>
                        ~Document_is_modified(
                            AutoSaveAfter(app.config.auto_save).tui.documents[
                                AutoSaveAfter(app.config.auto_save).saved[k].index + 1])
              /\ \A i \in 0..(Len(tui.documents) - 1) :
                    i \notin ToAutoSave =>
                        AutoSaveAfter(app.config.auto_save).tui.documents[i + 1]
                            = tui.documents[i + 1]
              /\ \A e \in 0..(app.config.auto_save - 1) :
                    /\ AutoSaveAfter(e).saved = <<>>
                    /\ AutoSaveAfter(e).tui = tui
                    /\ AutoSaveAfter(e).files = fs

\* an auto-save whose first call of save() failed and whose second succeeded
C40_Witness ==
    /\ Len(event.saved) = 2
    /\ ~event.saved[1].ok
    /\ event.saved[2].ok
    /\ ~Document_is_modified(tui.documents[event.saved[2].index + 1])
    /\ Document_is_modified(tui.documents[event.saved[1].index + 1])

=============================================================================
